---- MODULE Spec2Model ----
(***************************************************************************)
(* MiniWallet: a wallet daemon driven through sentinel files.              *)
(*                                                                         *)
(* The model follows src/src/MiniWallet/MiniWallet.cpp: the start-up       *)
(* (mini_wallet::init, tryToOpenWalletOrLoadKeysOrThrow, new_wallet), the  *)
(* four polling loops (gui_helper, tx_helper, reset_helper, save_helper),  *)
(* the operations they call on the session (reset, transferGui,            *)
(* saveWrapper, getBalance, getTxs) and the observers that turn the        *)
(* engine's completion callbacks into blocking waits (InitWaiter,          *)
(* SaveWaiter, mini_wallet::initCompleted).  The wallet engine, the        *)
(* front-end and the WalletHelper library are not part of that file; they  *)
(* are modelled at their interface.                                        *)
(***************************************************************************)
EXTENDS Integers, Sequences, FiniteSets, TLC

(***************************************************************************)
(* Bounds of the model.                                                    *)
(***************************************************************************)
\* requests the front-end drops on a channel when one loop runs alone
MaxDrops == 2
\* requests the front-end drops on a channel when all the loops run
MaxLoad == 1

(***************************************************************************)
(* Program constants.                                                      *)
(***************************************************************************)
\* uint8_t retry = 3 in tx_helper
RemoveRetries == 3

(***************************************************************************)
(* Request lines.  A line is a sequence of tokens; the token "|" is the    *)
(* delimiter character, every other token stands for the characters of one *)
(* field.                                                                  *)
(***************************************************************************)
Delim == "|"

\* mixin|address|amount|paymentId   and   mixin|address|amount|paymentId|fee
LineWithPaymentId == <<"3", Delim, "addrA", Delim, "15", Delim, "pid64">>
LineWithFee == <<"3", Delim, "addrA", Delim, "15", Delim, "pid64", Delim, "f10">>
\* non-numeric mixin
LineBadMixin == <<"abc", Delim, "addrA", Delim, "15", Delim, "pid64">>
\* mixin|address|amount
LinePlain == <<"3", Delim, "addrA", Delim, "15">>

RequestLines == {LineWithPaymentId, LineWithFee, LineBadMixin, LinePlain}

\* Common::fromString<size_t>: the tokens that read as a non-negative integer
NumberTokens == {"0", "3"}
\* Currency::parseAccountAddressString
AddressTokens == {"addrA"}
\* createTxExtraWithPaymentId: a 64-character hex string
PaymentIdTokens == {"pid64"}
\* Currency::parseAmount: the tokens that read as an amount, and their value
AmountTokens == {"0", "3", "15", "f1", "f10"}
AmountOf(t) ==
  CASE t = "0" -> 0
    [] t = "3" -> 3
    [] t = "15" -> 15
    [] t = "f1" -> 1
    [] t = "f10" -> 10
    [] OTHER -> 0
\* Currency::minimumFee
MinimumFee == 10

(***************************************************************************)
(* tx_helper, lines 944-997: cut the line at every delimiter.  Only a      *)
(* token that is followed by a delimiter is taken; what is left after the  *)
(* last delimiter is not looked at.                                        *)
(***************************************************************************)
FindDelim(content) ==
  IF \E i \in 1..Len(content) : content[i] = Delim
  THEN CHOOSE i \in 1..Len(content) :
         content[i] = Delim /\ \A j \in 1..(i - 1) : content[j] # Delim
  ELSE 0

\* the characters before the delimiter, as one field ("" when there are none)
TokenBefore(content, pos) == IF pos = 1 THEN "" ELSE content[1]

PushField(args, idx, token) ==
  CASE idx \in {0, 1, 2} -> Append(args, token)
    [] idx = 3 -> IF token # "" THEN args \o <<"-p", token>> ELSE args
    [] idx = 4 -> IF token # "" THEN args \o <<"-f", token>> ELSE args
    [] OTHER -> args

RECURSIVE SplitLine(_, _, _)
SplitLine(content, idx, args) ==
  LET pos == FindDelim(content) IN
  IF pos = 0 THEN args
  ELSE SplitLine(SubSeq(content, pos + 1, Len(content)), idx + 1,
                 PushField(args, idx, TokenBefore(content, pos)))

ParseRequest(content) == SplitLine(content, 0, <<>>)

(***************************************************************************)
(* TransferCommand::parseArguments, lines 136-213.                         *)
(***************************************************************************)
NoCommand == [ok |-> FALSE, mixin |-> "", dsts |-> <<>>, extra |-> "", fee |-> 0]

RECURSIVE ParseRest(_, _)
ParseRest(args, cmd) ==
  IF args = <<>> THEN cmd
  ELSE
    LET arg == Head(args) IN
    IF arg \in {"-p", "-f"}
    THEN
      IF Len(args) < 2 THEN NoCommand
      ELSE
        LET value == args[2]
            rest == SubSeq(args, 3, Len(args))
        IN
        IF arg = "-p"
        THEN IF value \in PaymentIdTokens
             THEN ParseRest(rest, [cmd EXCEPT !.extra = value])
             ELSE NoCommand
        ELSE IF value \notin AmountTokens THEN NoCommand
             ELSE IF AmountOf(value) < MinimumFee THEN NoCommand
             ELSE ParseRest(rest, [cmd EXCEPT !.fee = AmountOf(value)])
    ELSE
      IF arg \notin AddressTokens THEN NoCommand
      ELSE IF Len(args) < 2 THEN NoCommand
      ELSE
        LET value == args[2]
            rest == SubSeq(args, 3, Len(args))
        IN
        IF value \notin AmountTokens \/ AmountOf(value) = 0 THEN NoCommand
        ELSE ParseRest(rest,
               [cmd EXCEPT !.dsts = Append(@, [address |-> arg, amount |-> AmountOf(value)])])

parseArguments(args) ==
  IF args = <<>> THEN NoCommand
  ELSE IF Head(args) \notin NumberTokens THEN NoCommand
  ELSE
    LET cmd == ParseRest(Tail(args),
                 [ok |-> TRUE, mixin |-> Head(args), dsts |-> <<>>,
                  extra |-> "", fee |-> MinimumFee])
    IN IF cmd.ok /\ cmd.dsts = <<>> THEN NoCommand ELSE cmd


(***************************************************************************)
(* Files.  A file is a record: what it holds (kind), the number of         *)
(* transactions of the wallet state it holds (txs) and who wrote it (src:  *)
(* "pre" for a file found at start-up, "eng" for one the engine wrote).    *)
(***************************************************************************)
NoFile == [kind |-> "absent", txs |-> 0, src |-> "pre"]
\* an output stream opened with trunc to which nothing has been written
EmptyFile == [kind |-> "empty", txs |-> 0, src |-> "eng"]
\* a save the engine gave up half-way
PartialFile == [kind |-> "partial", txs |-> 0, src |-> "eng"]
\* a complete wallet of the current format, as the engine's save writes it
WalletImage(n) == [kind |-> "wallet", txs |-> n, src |-> "eng"]
\* the files a start-up may find
OldWallet == [kind |-> "wallet", txs |-> 0, src |-> "pre"]
LegacyWallet == [kind |-> "legacy", txs |-> 0, src |-> "pre"]
LegacyKeys == [kind |-> "keys", txs |-> 0, src |-> "pre"]

Exists(f) == f.kind # "absent"

\* a request file: the number of the request (0: no file) and the line written so far
NoRequest == [id |-> 0, line |-> <<>>]

(***************************************************************************)
(* Observers.  Every blocking bridge registers one observer with the       *)
(* engine; "self" is the mini_wallet object, registered for the lifetime   *)
(* of the session.                                                         *)
(***************************************************************************)
InitWaiters == {"openInit", "genInit", "resetInit"}
SaveWaiters == {"resetSave", "saveObs", "txStore", "mainStore"}
Waiters == InitWaiters \cup SaveWaiters \cup {"sendObs"}

VARIABLES
  pcMain,        \* main thread: position in init / run
  terminated,    \* the process died of an exception no thread catches
  pwdOk,         \* the password the operator gave opens the wallet / the keys
  walletFileGui, \* m_wallet_file_gui, the basename of the sentinel files: "" or "W"
  \* ---- the engine (IWalletLegacy) and what is registered with it
  engState,      \* "uninit", "loading", "ready", "saving", "down"
  engOpBy,       \* the waiter of the bridge that issued the save / init in flight
  engLoad,       \* what the init in flight loads: [ok, txs]
  sendPending,   \* a send is in flight
  engTxs,        \* transactions in the wallet state held in memory
  registered,    \* observers registered with the engine
  slot,          \* per waiter: "none" (no promise), "empty", "ok", "err"
  slotBy,        \* per waiter: the waiter whose operation's completion filled the slot
  synchronized,  \* m_walletSynchronized
  \* ---- files
  walletFile,    \* W.wallet
  tempFile,      \* W.wallet.tmp.xxxx of saveWrapper
  keysFile,      \* W.keys
  bareFile,      \* W
  walletBack,    \* W.wallet.back
  keysBack,      \* W.keys.back
  addressFile,   \* W.address exists
  importBuf,     \* the stream importLegacyKeys filled
  storeBuf,      \* the stream of a storeWallet in progress
  \* ---- transaction loop
  pcTx, txcast, txresult, txArgs, txRetry, txResult,
  castLeft,      \* requests the front-end may still drop
  feOpen,        \* the front-end created the request file and has not written it yet
  txReadId,      \* the request whose complete line the loop read (0: none)
  consumed,      \* requests whose file the loop removed
  submitted,     \* per request: calls of transferWrapper with its line
  tgFileBefore,  \* the wallet file when transferGui was entered
  \* ---- save loop
  pcSave, saveFile, saveClaimed, saveLeft, svStreamOk, svError,
  \* ---- reset loop
  pcReset, resetFile, resetClaimed, resetLeft, rsError, resetBuf,
  \* ---- status loop
  pcGui, statusFile, txsFile, lastBalance, lastTxs

procVars == <<pcMain, terminated, pwdOk, walletFileGui>>
engVars == <<engState, engOpBy, engLoad, sendPending, engTxs, synchronized>>
obsVars == <<registered, slot, slotBy>>
fsVars == <<walletFile, tempFile, keysFile, bareFile, walletBack, keysBack,
            addressFile, importBuf, storeBuf>>
txVars == <<pcTx, txcast, txresult, txArgs, txRetry, txResult, castLeft, feOpen,
            txReadId, consumed, submitted, tgFileBefore>>
saveVars == <<pcSave, saveFile, saveClaimed, saveLeft, svStreamOk, svError>>
resetVars == <<pcReset, resetFile, resetClaimed, resetLeft, rsError, resetBuf>>
guiVars == <<pcGui, statusFile, txsFile, lastBalance, lastTxs>>
vars == <<procVars, engVars, obsVars, fsVars, txVars, saveVars, resetVars, guiVars>>

Requests == 1..(MaxDrops + 1)

\* the places of main after wal.run() returned and before main returns
Stopping == {"deinit", "cl_store", "cl_wait", "cl_shutdown", "interrupt"}

\* the threads run from their start until main returns, while the process is
\* alive
Running == pcMain \in {"running"} \cup Stopping /\ ~terminated


(***************************************************************************)
(* The completion callbacks of the observers.                              *)
(*   InitWaiter::initCompleted, SaveWaiter::saveCompleted:                 *)
(*       promise.set_value(result)                                         *)
(*   mini_wallet::initCompleted:                                           *)
(*       if (m_initResultPromise != nullptr) set_value(result)             *)
(* std::promise::set_value on a promise that already holds a value throws  *)
(* std::future_error; the callback runs on the engine's thread, where      *)
(* nothing catches it.                                                     *)
(***************************************************************************)
Fulfilled(w) == slot[w] \in {"ok", "err"}

\* the callback of waiter w raises instead of returning
CallbackThrows(w) == Fulfilled(w)

\* the init observers an init completion reaches
InitTargets ==
  (registered \cap {"openInit", "resetInit"})
    \cup (IF "self" \in registered /\ slot["genInit"] # "none" THEN {"genInit"} ELSE {})

\* the save observers a save completion reaches
SaveTargets == registered \cap SaveWaiters

\* the engine notifies every observer in ws of the completion, with result
\* res, of the operation that the bridge of waiter by issued
Notify(ws, res, by) ==
  /\ slot' = [w \in Waiters |-> IF w \in ws /\ slot[w] = "empty" THEN res ELSE slot[w]]
  /\ slotBy' = [w \in Waiters |-> IF w \in ws /\ slot[w] = "empty" THEN by ELSE slotBy[w]]
  /\ terminated' = (terminated \/ \E w \in ws : CallbackThrows(w))
  /\ UNCHANGED registered

\* a faulty bridge: the promise is made, the observer is not registered
RegisterSlotOnly(w) ==
  /\ slot' = [slot EXCEPT ![w] = "empty"]
  /\ slotBy' = [slotBy EXCEPT ![w] = "none"]
  /\ UNCHANGED registered

\* a bridge registers its observer, with a fresh promise
Register(w) ==
  /\ registered' = registered \cup {w}
  /\ slot' = [slot EXCEPT ![w] = "empty"]
  /\ slotBy' = [slotBy EXCEPT ![w] = "none"]

\* a faulty bridge: the observer stays registered when the bridge is left
UnregisterSkipped(w) == UNCHANGED <<registered, slot, slotBy>>

\* the observer is removed and destroyed with its promise
Unregister(w) ==
  /\ registered' = registered \ {w}
  /\ slot' = [slot EXCEPT ![w] = "none"]
  /\ slotBy' = [slotBy EXCEPT ![w] = "none"]

(***************************************************************************)
(* The engine.  A save or an init runs on the engine's own thread and ends *)
(* with a completion callback to every registered observer.                *)
(***************************************************************************)
SaveOutput(res) == IF res = "ok" THEN WalletImage(engTxs) ELSE PartialFile

EngineSaveCompleted ==
  /\ ~terminated
  /\ engState = "saving"
  /\ \E res \in {"ok", "err"} :
       /\ engState' = "ready"
       /\ engOpBy' = "none"
       /\ walletFile' = IF engOpBy = "saveObs" /\ svStreamOk THEN SaveOutput(res)
                        ELSE walletFile
       /\ resetBuf' = IF engOpBy = "resetSave" THEN SaveOutput(res) ELSE resetBuf
       /\ storeBuf' = IF engOpBy \in {"txStore", "mainStore"} THEN SaveOutput(res)
                      ELSE storeBuf
       /\ Notify(SaveTargets, res, engOpBy)
  /\ UNCHANGED <<pcMain, pwdOk, walletFileGui, engLoad, sendPending, engTxs, synchronized>>
  /\ UNCHANGED <<tempFile, keysFile, bareFile, walletBack, keysBack, addressFile, importBuf>>
  /\ UNCHANGED <<txVars, saveVars, guiVars>>
  /\ UNCHANGED <<pcReset, resetFile, resetClaimed, resetLeft, rsError>>

EngineInitCompleted ==
  /\ ~terminated
  /\ engState = "loading"
  /\ engState' = IF engLoad.ok THEN "ready" ELSE "uninit"
  /\ engTxs' = IF engLoad.ok THEN engLoad.txs ELSE engTxs
  /\ engOpBy' = "none"
  /\ Notify(InitTargets, IF engLoad.ok THEN "ok" ELSE "err", engOpBy)
  /\ UNCHANGED <<pcMain, pwdOk, walletFileGui, engLoad, sendPending, synchronized>>
  /\ UNCHANGED <<fsVars, txVars, saveVars, resetVars, guiVars>>

\* the send in flight ends; its observer takes the completion of its own
\* transaction only (sent.wait(tx))
EngineSendCompleted ==
  /\ ~terminated
  /\ sendPending
  /\ \E res \in {"ok", "err"} :
       /\ res = "ok" => engState \in {"ready", "saving"}
       /\ engTxs' = IF res = "ok" THEN engTxs + 1 ELSE engTxs
       /\ Notify(registered \cap {"sendObs"}, res, "sendObs")
  /\ sendPending' = FALSE
  /\ UNCHANGED <<pcMain, pwdOk, walletFileGui, engState, engOpBy, engLoad, synchronized>>
  /\ UNCHANGED <<fsVars, txVars, saveVars, resetVars, guiVars>>

\* mini_wallet::synchronizationCompleted
EngineSyncCompleted ==
  /\ Running
  /\ engState \in {"ready", "saving"}
  /\ ~synchronized
  /\ synchronized' = TRUE
  /\ UNCHANGED <<procVars, engState, engOpBy, engLoad, sendPending, engTxs>>
  /\ UNCHANGED <<obsVars, fsVars, txVars, saveVars, resetVars, guiVars>>


(***************************************************************************)
(* The front-end on the .txcast channel.  It writes a request as any       *)
(* program writes a file: it creates the file, then writes the line.  It   *)
(* drops a request only when none is pending, and may take a pending       *)
(* request back.  Requests are numbered; the last one has number MaxDrops. *)
(***************************************************************************)
NextRequestId == MaxDrops - castLeft + 1

FrontEndCreate ==
  /\ Running
  /\ castLeft > 0 /\ ~feOpen /\ txcast = NoRequest
  /\ txcast' = [id |-> NextRequestId, line |-> <<>>]
  /\ feOpen' = TRUE
  /\ castLeft' = castLeft - 1
  /\ UNCHANGED <<pcTx, txresult, txArgs, txRetry, txResult, txReadId, consumed,
                 submitted, tgFileBefore>>
  /\ UNCHANGED <<procVars, engVars, obsVars, fsVars, saveVars, resetVars, guiVars>>

\* the line reaches the file, unless the file was removed in between
FrontEndWrite ==
  /\ Running
  /\ feOpen
  /\ \E line \in RequestLines :
       txcast' = IF txcast # NoRequest THEN [txcast EXCEPT !.line = line] ELSE txcast
  /\ feOpen' = FALSE
  /\ UNCHANGED <<pcTx, txresult, txArgs, txRetry, txResult, castLeft, txReadId,
                 consumed, submitted, tgFileBefore>>
  /\ UNCHANGED <<procVars, engVars, obsVars, fsVars, saveVars, resetVars, guiVars>>

FrontEndWithdraw ==
  /\ Running
  /\ ~feOpen /\ txcast # NoRequest
  /\ txcast' = NoRequest
  /\ UNCHANGED <<pcTx, txresult, txArgs, txRetry, txResult, castLeft, feOpen,
                 txReadId, consumed, submitted, tgFileBefore>>
  /\ UNCHANGED <<procVars, engVars, obsVars, fsVars, saveVars, resetVars, guiVars>>

(***************************************************************************)
(* tx_helper, lines 935-1022.                                              *)
(***************************************************************************)
\* line 937: boost::filesystem::exists(file_name_txcast)
TxPoll ==
  /\ Running
  /\ pcTx = "tx_poll"
  /\ pcTx' = IF txcast # NoRequest THEN "tx_read" ELSE "tx_sleep"
  /\ UNCHANGED <<txcast, txresult, txArgs, txRetry, txResult, castLeft, feOpen,
                 txReadId, consumed, submitted, tgFileBefore>>
  /\ UNCHANGED <<procVars, engVars, obsVars, fsVars, saveVars, resetVars, guiVars>>

\* lines 938-999: open, read the content, cut it into arguments, close.  When
\* the open fails the stream never reaches eof and the read loop does not end.
TxRead ==
  /\ Running
  /\ pcTx = "tx_read"
  /\ IF txcast = NoRequest
     THEN /\ pcTx' = "tx_spin"
          /\ UNCHANGED <<txArgs, txReadId>>
     ELSE /\ pcTx' = "tx_remove"
          /\ txArgs' = ParseRequest(txcast.line)
          /\ txReadId' = IF txcast.line # <<>> THEN txcast.id ELSE 0
  /\ UNCHANGED <<txcast, txresult, txRetry, txResult, castLeft, feOpen, consumed,
                 submitted, tgFileBefore>>
  /\ UNCHANGED <<procVars, engVars, obsVars, fsVars, saveVars, resetVars, guiVars>>

\* boost::filesystem::remove(file_name_txcast): true when it removed the file,
\* false when there was no file, an exception when the file cannot be removed
RemoveRequest(next, failed) ==
  \/ /\ txcast # NoRequest
     /\ txcast' = NoRequest
     /\ consumed' = consumed \cup {txcast.id}
     /\ pcTx' = next
  \/ /\ txcast # NoRequest
     /\ pcTx' = "tx_poll"          \* catch (...) { wait(1); continue; }
     /\ UNCHANGED <<txcast, consumed>>
  \/ /\ txcast = NoRequest
     /\ pcTx' = failed
     /\ UNCHANGED <<txcast, consumed>>

\* lines 1001-1002
TxRemove ==
  /\ Running
  /\ pcTx = "tx_remove"
  /\ txRetry' = RemoveRetries
  /\ RemoveRequest("tg_parse", "tx_retry")
  /\ UNCHANGED <<txresult, txArgs, txResult, castLeft, feOpen, txReadId, submitted,
                 tgFileBefore>>
  /\ UNCHANGED <<procVars, engVars, obsVars, fsVars, saveVars, resetVars, guiVars>>

\* lines 1003-1007: while (retry > 0 && !statusRemove) { retry--; remove; wait(1); }
TxRetry ==
  /\ Running
  /\ pcTx = "tx_retry"
  /\ IF txRetry > 0
     THEN /\ txRetry' = txRetry - 1
          /\ RemoveRequest("tg_parse", "tx_retry")
     ELSE /\ pcTx' = "tg_parse"
          /\ UNCHANGED <<txRetry, txcast, consumed>>
  /\ UNCHANGED <<txresult, txArgs, txResult, castLeft, feOpen, txReadId, submitted,
                 tgFileBefore>>
  /\ UNCHANGED <<procVars, engVars, obsVars, fsVars, saveVars, resetVars, guiVars>>

\* lines 1011-1013: the result file
TxWrite ==
  /\ Running
  /\ pcTx = "tx_write"
  /\ txresult' = txResult
  /\ pcTx' = "tx_sleep"
  /\ UNCHANGED <<txcast, txArgs, txRetry, txResult, castLeft, feOpen, txReadId,
                 consumed, submitted, tgFileBefore>>
  /\ UNCHANGED <<procVars, engVars, obsVars, fsVars, saveVars, resetVars, guiVars>>

\* lines 1020-1021: interruption_point(); wait(2)
TxSleep ==
  /\ Running
  /\ pcTx = "tx_sleep"
  /\ pcTx' = "tx_poll"
  /\ UNCHANGED <<txcast, txresult, txArgs, txRetry, txResult, castLeft, feOpen,
                 txReadId, consumed, submitted, tgFileBefore>>
  /\ UNCHANGED <<procVars, engVars, obsVars, fsVars, saveVars, resetVars, guiVars>>


(***************************************************************************)
(* WalletHelper::storeWallet (persist) as the specification states it: the *)
(* engine's save is issued through a bridge; when the engine reports       *)
(* success the wallet file holds the saved state, when it reports failure  *)
(* the error is surfaced and the file on disk is left as it was.           *)
(***************************************************************************)
\* the save is issued; the engine refuses it unless it is initialized and idle
storeWalletIssue(w) ==
  IF engState = "ready"
  THEN /\ Register(w)
       /\ engState' = "saving"
       /\ engOpBy' = w
  ELSE /\ UNCHANGED <<obsVars, engState, engOpBy>>

storeWalletRefused == engState # "ready"

\* the completion arrived: the file is replaced on success only
storeWalletFinish(w) ==
  /\ Fulfilled(w)
  /\ Unregister(w)
  /\ walletFile' = IF slot[w] = "ok" THEN storeBuf ELSE walletFile

(***************************************************************************)
(* mini_wallet::transferGui, lines 690-735 (called through                 *)
(* transferWrapper, line 1009).                                            *)
(***************************************************************************)
\* a faulty tx_helper: a request that does not parse gets no result file
TgParseDropsSilently ==
  /\ Running
  /\ pcTx = "tg_parse"
  /\ tgFileBefore' = walletFile
  /\ submitted' = IF txReadId # 0 THEN [submitted EXCEPT ![txReadId] = @ + 1]
                  ELSE submitted
  /\ IF parseArguments(txArgs).ok
     THEN /\ Register("sendObs")
          /\ pcTx' = "tg_send"
          /\ UNCHANGED txResult
     ELSE /\ txResult' = "Parse error"
          /\ pcTx' = "tx_sleep"
          /\ UNCHANGED obsVars
  /\ UNCHANGED <<txcast, txresult, txArgs, txRetry, castLeft, feOpen, txReadId, consumed>>
  /\ UNCHANGED <<procVars, engVars, fsVars, saveVars, resetVars, guiVars>>

\* lines 692-701: parse the arguments, register the send observer
TgParse ==
  /\ Running
  /\ pcTx = "tg_parse"
  /\ tgFileBefore' = walletFile
  /\ submitted' = IF txReadId # 0 THEN [submitted EXCEPT ![txReadId] = @ + 1]
                  ELSE submitted
  /\ IF parseArguments(txArgs).ok
     THEN /\ Register("sendObs")
          /\ pcTx' = "tg_send"
          /\ UNCHANGED txResult
     ELSE /\ txResult' = "Parse error"
          /\ pcTx' = "tx_write"
          /\ UNCHANGED obsVars
  /\ UNCHANGED <<txcast, txresult, txArgs, txRetry, castLeft, feOpen, txReadId, consumed>>
  /\ UNCHANGED <<procVars, engVars, fsVars, saveVars, resetVars, guiVars>>

\* a faulty transferGui: the invalid-transaction id is waited for all the same
TgSendWaitsAfterRefusal ==
  /\ Running
  /\ pcTx = "tg_send"
  /\ IF engState \notin {"ready", "saving"}
     THEN /\ Unregister("sendObs")
          /\ txResult' = "error"
          /\ pcTx' = "tx_write"
          /\ UNCHANGED sendPending
     ELSE \E started \in BOOLEAN :
            IF started
            THEN /\ sendPending' = TRUE
                 /\ pcTx' = "tg_wait"
                 /\ UNCHANGED <<obsVars, txResult>>
            ELSE /\ pcTx' = "tg_wait"
                 /\ UNCHANGED <<obsVars, txResult, sendPending>>
  /\ UNCHANGED <<txcast, txresult, txArgs, txRetry, castLeft, feOpen, txReadId,
                 consumed, submitted, tgFileBefore>>
  /\ UNCHANGED <<procVars, engState, engOpBy, engLoad, engTxs, synchronized>>
  /\ UNCHANGED <<fsVars, saveVars, resetVars, guiVars>>

\* lines 703-706: sendTransaction throws, returns the invalid id, or returns
\* the id of the transaction it started
TgSend ==
  /\ Running
  /\ pcTx = "tg_send"
  /\ IF engState \notin {"ready", "saving"}
     THEN /\ Unregister("sendObs")
          /\ txResult' = "error"
          /\ pcTx' = "tx_write"
          /\ UNCHANGED sendPending
     ELSE \E started \in BOOLEAN :
            IF started
            THEN /\ sendPending' = TRUE
                 /\ pcTx' = "tg_wait"
                 /\ UNCHANGED <<obsVars, txResult>>
            ELSE /\ Unregister("sendObs")
                 /\ txResult' = "Can't send money"
                 /\ pcTx' = "tx_write"
                 /\ UNCHANGED sendPending
  /\ UNCHANGED <<txcast, txresult, txArgs, txRetry, castLeft, feOpen, txReadId,
                 consumed, submitted, tgFileBefore>>
  /\ UNCHANGED <<procVars, engState, engOpBy, engLoad, engTxs, synchronized>>
  /\ UNCHANGED <<fsVars, saveVars, resetVars, guiVars>>

\* lines 708-716: sent.wait(tx); removeObserver
TgWait ==
  /\ Running
  /\ pcTx = "tg_wait"
  /\ Fulfilled("sendObs")
  /\ Unregister("sendObs")
  /\ IF slot["sendObs"] = "ok"
     THEN /\ pcTx' = "tg_store"
          /\ UNCHANGED txResult
     ELSE /\ txResult' = "error"
          /\ pcTx' = "tx_write"
  /\ UNCHANGED <<txcast, txresult, txArgs, txRetry, castLeft, feOpen, txReadId,
                 consumed, submitted, tgFileBefore>>
  /\ UNCHANGED <<procVars, engVars, fsVars, saveVars, resetVars, guiVars>>

\* lines 718-723: storeWallet(*m_wallet, m_wallet_file), the save is issued
TgStore ==
  /\ Running
  /\ pcTx = "tg_store"
  /\ storeWalletIssue("txStore")
  /\ IF storeWalletRefused
     THEN /\ txResult' = "error"
          /\ pcTx' = "tx_write"
     ELSE /\ pcTx' = "tg_storewait"
          /\ UNCHANGED txResult
  /\ UNCHANGED <<txcast, txresult, txArgs, txRetry, castLeft, feOpen, txReadId,
                 consumed, submitted, tgFileBefore>>
  /\ UNCHANGED <<procVars, engLoad, sendPending, engTxs, synchronized>>
  /\ UNCHANGED <<fsVars, saveVars, resetVars, guiVars>>

\* a faulty transferGui: the hash is returned whatever storeWallet did
TgStoreWaitAlwaysHash ==
  /\ Running
  /\ pcTx = "tg_storewait"
  /\ storeWalletFinish("txStore")
  /\ txResult' = "hash"
  /\ pcTx' = "tx_write"
  /\ UNCHANGED <<txcast, txresult, txArgs, txRetry, castLeft, feOpen, txReadId,
                 consumed, submitted, tgFileBefore>>
  /\ UNCHANGED <<procVars, engVars, saveVars, resetVars, guiVars>>
  /\ UNCHANGED <<tempFile, keysFile, bareFile, walletBack, keysBack, addressFile,
                 importBuf, storeBuf>>

\* lines 719-724: storeWallet returns or throws; the hash or e.what()
TgStoreWait ==
  /\ Running
  /\ pcTx = "tg_storewait"
  /\ storeWalletFinish("txStore")
  /\ txResult' = IF slot["txStore"] = "ok" THEN "hash" ELSE "error"
  /\ pcTx' = "tx_write"
  /\ UNCHANGED <<txcast, txresult, txArgs, txRetry, castLeft, feOpen, txReadId,
                 consumed, submitted, tgFileBefore>>
  /\ UNCHANGED <<procVars, engVars, saveVars, resetVars, guiVars>>
  /\ UNCHANGED <<tempFile, keysFile, bareFile, walletBack, keysBack, addressFile,
                 importBuf, storeBuf>>

(***************************************************************************)
(* The transaction channel alone: the front-end, tx_helper and the engine, *)
(* on a session that is open.                                              *)
(***************************************************************************)
NoSlots == [w \in Waiters |-> "none"]

SessionOpen ==
  /\ pcMain = "running" /\ terminated = FALSE /\ pwdOk = TRUE
  /\ walletFileGui = "W"
  /\ engState = "ready" /\ engOpBy = "none" /\ engLoad = [ok |-> TRUE, txs |-> 0]
  /\ sendPending = FALSE /\ engTxs = 0
  /\ registered = {"self"} /\ slot = NoSlots /\ slotBy = NoSlots
  /\ walletFile = OldWallet /\ tempFile = NoFile /\ keysFile = NoFile
  /\ bareFile = NoFile /\ walletBack = NoFile /\ keysBack = NoFile
  /\ addressFile = TRUE /\ importBuf = NoFile /\ storeBuf = NoFile
  /\ txresult = "" /\ txArgs = <<>> /\ txRetry = 0
  /\ txResult = "" /\ feOpen = FALSE /\ txReadId = 0 /\ consumed = {}
  /\ submitted = [r \in Requests |-> 0] /\ tgFileBefore = NoFile
  /\ saveFile = FALSE /\ saveClaimed = FALSE /\ svStreamOk = TRUE /\ svError = FALSE
  /\ resetFile = FALSE /\ resetClaimed = FALSE /\ rsError = FALSE /\ resetBuf = NoFile
  /\ statusFile = <<>> /\ txsFile = [exists |-> FALSE, text |-> <<>>]
  /\ lastBalance = <<>> /\ lastTxs = <<>>

InitSession == SessionOpen /\ txcast = NoRequest

InitTx ==
  /\ InitSession
  /\ synchronized \in BOOLEAN
  /\ pcTx = "tx_poll" /\ pcSave = "off" /\ pcReset = "off" /\ pcGui = "off"
  /\ castLeft = MaxDrops /\ saveLeft = 0 /\ resetLeft = 0

TxLoop ==
  \/ TxPoll \/ TxRead \/ TxRemove \/ TxRetry \/ TxWrite \/ TxSleep
  \/ TgParse \/ TgSend \/ TgWait \/ TgStore \/ TgStoreWait

FrontEndTx == FrontEndCreate \/ FrontEndWrite \/ FrontEndWithdraw

NextTx == TxLoop \/ FrontEndTx \/ EngineSendCompleted \/ EngineSaveCompleted

SpecTx == InitTx /\ [][NextTx]_vars

\* the thread of tx_helper is scheduled, and the engine answers the send and
\* the save it was given
SpecTxFair ==
  /\ SpecTx
  /\ WF_vars(TxLoop)
  /\ WF_vars(EngineSendCompleted)
  /\ WF_vars(EngineSaveCompleted)

(***************************************************************************)
(* The request format: one request file whose line is any line of two to   *)
(* five fields, well-formed or not, picked up by tx_helper.                *)
(***************************************************************************)
MixinFields == {"3", "abc"}
AddressFields == {"addrA", "bad"}
AmountFields == {"15", "0"}
PaymentIdFields == {"pid64", "xyz", ""}
FeeFields == {"f10", "f1"}

\* the characters of a line whose fields are given: the fields with one
\* delimiter between two of them, an empty field having no characters
RECURSIVE JoinFields(_)
JoinFields(fields) ==
  IF fields = <<>> THEN <<>>
  ELSE LET first == IF Head(fields) = "" THEN <<>> ELSE <<Head(fields)>> IN
       IF Len(fields) = 1 THEN first
       ELSE first \o <<Delim>> \o JoinFields(Tail(fields))

FormatFields ==
  {<<m, a>> : m \in MixinFields, a \in AddressFields}
    \cup (MixinFields \X AddressFields \X AmountFields)
    \cup (MixinFields \X AddressFields \X AmountFields \X (PaymentIdFields \ {""}))
    \cup (MixinFields \X AddressFields \X AmountFields \X PaymentIdFields \X FeeFields)

FormatLines == {JoinFields(f) : f \in FormatFields}

InitFormat ==
  /\ SessionOpen
  /\ synchronized = TRUE
  /\ pcTx = "tx_poll" /\ pcSave = "off" /\ pcReset = "off" /\ pcGui = "off"
  /\ castLeft = 0 /\ saveLeft = 0 /\ resetLeft = 0
  /\ \E line \in FormatLines : txcast = [id |-> 1, line |-> line]

NextFormat == TxLoop \/ FrontEndWithdraw \/ EngineSendCompleted \/ EngineSaveCompleted

SpecFormat == InitFormat /\ [][NextFormat]_vars


(***************************************************************************)
(* The front-end on the .save and .reset channels: presence-only triggers. *)
(***************************************************************************)
FrontEndSave ==
  /\ Running
  /\ saveLeft > 0 /\ ~saveFile
  /\ saveFile' = TRUE
  /\ saveLeft' = saveLeft - 1
  /\ UNCHANGED <<pcSave, saveClaimed, svStreamOk, svError>>
  /\ UNCHANGED <<procVars, engVars, obsVars, fsVars, txVars, resetVars, guiVars>>

FrontEndReset ==
  /\ Running
  /\ resetLeft > 0 /\ ~resetFile
  /\ resetFile' = TRUE
  /\ resetLeft' = resetLeft - 1
  /\ UNCHANGED <<pcReset, resetClaimed, rsError, resetBuf>>
  /\ UNCHANGED <<procVars, engVars, obsVars, fsVars, txVars, saveVars, guiVars>>

(***************************************************************************)
(* save_helper, lines 908-925.                                             *)
(***************************************************************************)
\* line 914: exists(file_name_save)
SvPoll ==
  /\ Running
  /\ pcSave = "sv_poll"
  /\ pcSave' = IF saveFile THEN "sv_claim" ELSE "sv_idle"
  /\ UNCHANGED <<saveFile, saveClaimed, saveLeft, svStreamOk, svError>>
  /\ UNCHANGED <<procVars, engVars, obsVars, fsVars, txVars, resetVars, guiVars>>

\* line 919: wait(5)
SvIdle ==
  /\ Running
  /\ pcSave = "sv_idle"
  /\ pcSave' = "sv_poll"
  /\ UNCHANGED <<saveFile, saveClaimed, saveLeft, svStreamOk, svError>>
  /\ UNCHANGED <<procVars, engVars, obsVars, fsVars, txVars, resetVars, guiVars>>

\* a faulty save_helper: no catch, the thread ends when the rename throws
SvClaimUncaught ==
  /\ Running
  /\ pcSave = "sv_claim"
  /\ \E renamed \in BOOLEAN :
       IF renamed
       THEN /\ saveFile' = FALSE
            /\ saveClaimed' = TRUE
            /\ pcSave' = "sv_check"
       ELSE /\ pcSave' = "off"
            /\ UNCHANGED <<saveFile, saveClaimed>>
  /\ UNCHANGED <<saveLeft, svStreamOk, svError>>
  /\ UNCHANGED <<procVars, engVars, obsVars, fsVars, txVars, resetVars, guiVars>>

\* line 915: rename(file_name_save, file_name_save + "_"); when it throws,
\* catch (...) { wait(2); } and the loop polls again
SvClaim ==
  /\ Running
  /\ pcSave = "sv_claim"
  /\ \E renamed \in BOOLEAN :
       IF renamed
       THEN /\ saveFile' = FALSE
            /\ saveClaimed' = TRUE
            /\ pcSave' = "sv_check"
       ELSE /\ pcSave' = "sv_poll"
            /\ UNCHANGED <<saveFile, saveClaimed>>
  /\ UNCHANGED <<saveLeft, svStreamOk, svError>>
  /\ UNCHANGED <<procVars, engVars, obsVars, fsVars, txVars, resetVars, guiVars>>

(***************************************************************************)
(* mini_wallet::saveWrapper, lines 844-882, with walletSaveWrapper, lines  *)
(* 825-842.                                                                *)
(***************************************************************************)
\* line 845: if (!m_walletSynchronized) return false
SvCheck ==
  /\ Running
  /\ pcSave = "sv_check"
  /\ pcSave' = IF synchronized THEN "sv_rename" ELSE "sv_sleep"
  /\ UNCHANGED <<saveFile, saveClaimed, saveLeft, svStreamOk, svError>>
  /\ UNCHANGED <<procVars, engVars, obsVars, fsVars, txVars, resetVars, guiVars>>

\* lines 849-853: the existing wallet file is renamed to the temporary name;
\* when the rename throws, catch (...) returns false
SvRename ==
  /\ Running
  /\ pcSave = "sv_rename"
  /\ IF Exists(walletFile)
     THEN \E renamed \in BOOLEAN :
            IF renamed
            THEN /\ tempFile' = walletFile
                 /\ walletFile' = NoFile
                 /\ pcSave' = "sv_open"
            ELSE /\ pcSave' = "sv_sleep"
                 /\ UNCHANGED <<walletFile, tempFile>>
     ELSE /\ pcSave' = "sv_open"
          /\ UNCHANGED <<walletFile, tempFile>>
  /\ UNCHANGED <<saveFile, saveClaimed, saveLeft, svStreamOk, svError>>
  /\ UNCHANGED <<keysFile, bareFile, walletBack, keysBack, addressFile, importBuf, storeBuf>>
  /\ UNCHANGED <<procVars, engVars, obsVars, txVars, resetVars, guiVars>>

\* lines 855-864 with openOutputFileStream, lines 817-823: the canonical name
\* is opened with trunc; a failed open is reported by a return value that
\* saveWrapper does not read
SvOpen ==
  /\ Running
  /\ pcSave = "sv_open"
  /\ \E opened \in BOOLEAN :
       /\ svStreamOk' = opened
       /\ walletFile' = IF opened THEN EmptyFile ELSE walletFile
  /\ pcSave' = "sv_save"
  /\ UNCHANGED <<saveFile, saveClaimed, saveLeft, svError>>
  /\ UNCHANGED <<tempFile, keysFile, bareFile, walletBack, keysBack, addressFile,
                 importBuf, storeBuf>>
  /\ UNCHANGED <<procVars, engVars, obsVars, txVars, resetVars, guiVars>>

\* walletSaveWrapper's catch, lines 835-838: the observer is removed
walletSaveWrapperCatch == Unregister("saveObs")

\* lines 826-832: addObserver(&o); wallet.save(file, ...).  The engine throws
\* unless it is initialized and idle.
SvSave ==
  /\ Running
  /\ pcSave = "sv_save"
  /\ IF engState = "ready"
     THEN /\ Register("saveObs")
          /\ engState' = "saving"
          /\ engOpBy' = "saveObs"
          /\ pcSave' = "sv_wait"
          /\ UNCHANGED svError
     ELSE /\ walletSaveWrapperCatch
          /\ svError' = TRUE
          /\ pcSave' = "sv_fail"
          /\ UNCHANGED <<engState, engOpBy>>
  /\ UNCHANGED <<saveFile, saveClaimed, saveLeft, svStreamOk>>
  /\ UNCHANGED <<procVars, engLoad, sendPending, engTxs, synchronized>>
  /\ UNCHANGED <<fsVars, txVars, resetVars, guiVars>>

\* lines 833, 840-841, 867: f.get(); removeObserver(&o); return e
SvWait ==
  /\ Running
  /\ pcSave = "sv_wait"
  /\ Fulfilled("saveObs")
  /\ Unregister("saveObs")
  /\ svError' = (slot["saveObs"] = "err")
  /\ pcSave' = IF slot["saveObs"] = "err" THEN "sv_fail" ELSE "sv_done"
  /\ UNCHANGED <<saveFile, saveClaimed, saveLeft, svStreamOk>>
  /\ UNCHANGED <<procVars, engVars, fsVars, txVars, resetVars, guiVars>>

\* lines 868-869: file.close(); remove(walletFilename): it removes the file,
\* or finds none and returns false, or throws when the file cannot be
\* removed, and then catch (...) returns false
SvFailRemove ==
  /\ Running
  /\ pcSave = "sv_fail"
  /\ \E removed \in BOOLEAN :
       IF removed \/ ~Exists(walletFile)
       THEN /\ walletFile' = NoFile
            /\ pcSave' = "sv_restore"
       ELSE /\ pcSave' = "sv_sleep"
            /\ UNCHANGED walletFile
  /\ UNCHANGED <<saveFile, saveClaimed, saveLeft, svStreamOk, svError>>
  /\ UNCHANGED <<tempFile, keysFile, bareFile, walletBack, keysBack, addressFile,
                 importBuf, storeBuf>>
  /\ UNCHANGED <<procVars, engVars, obsVars, txVars, resetVars, guiVars>>

\* a faulty saveWrapper: the original is copied back and the temporary file
\* stays
SvFailRestoreLeavesTemp ==
  /\ Running
  /\ pcSave = "sv_restore"
  /\ walletFile' = IF Exists(tempFile) THEN tempFile ELSE walletFile
  /\ pcSave' = "sv_sleep"
  /\ UNCHANGED <<saveFile, saveClaimed, saveLeft, svStreamOk, svError>>
  /\ UNCHANGED <<tempFile, keysFile, bareFile, walletBack, keysBack, addressFile,
                 importBuf, storeBuf>>
  /\ UNCHANGED <<procVars, engVars, obsVars, txVars, resetVars, guiVars>>

\* lines 870-871: rename(tempFile, walletFilename) (it throws when there is
\* no temporary file); throw std::system_error(saveError); return false
SvFailRestore ==
  /\ Running
  /\ pcSave = "sv_restore"
  /\ IF Exists(tempFile)
     THEN /\ walletFile' = tempFile
          /\ tempFile' = NoFile
     ELSE UNCHANGED <<walletFile, tempFile>>
  /\ pcSave' = "sv_sleep"
  /\ UNCHANGED <<saveFile, saveClaimed, saveLeft, svStreamOk, svError>>
  /\ UNCHANGED <<keysFile, bareFile, walletBack, keysBack, addressFile, importBuf, storeBuf>>
  /\ UNCHANGED <<procVars, engVars, obsVars, txVars, resetVars, guiVars>>

\* lines 874-881: file.close(); remove(tempFile, ignore); return true
SvDone ==
  /\ Running
  /\ pcSave = "sv_done"
  /\ tempFile' = NoFile
  /\ pcSave' = "sv_sleep"
  /\ UNCHANGED <<saveFile, saveClaimed, saveLeft, svStreamOk, svError>>
  /\ UNCHANGED <<walletFile, keysFile, bareFile, walletBack, keysBack, addressFile,
                 importBuf, storeBuf>>
  /\ UNCHANGED <<procVars, engVars, obsVars, txVars, resetVars, guiVars>>

\* line 917: wait(10)
SvSleep ==
  /\ Running
  /\ pcSave = "sv_sleep"
  /\ pcSave' = "sv_poll"
  /\ UNCHANGED <<saveFile, saveClaimed, saveLeft, svStreamOk, svError>>
  /\ UNCHANGED <<procVars, engVars, obsVars, fsVars, txVars, resetVars, guiVars>>

SaveLoop ==
  \/ SvPoll \/ SvIdle \/ SvClaim \/ SvCheck \/ SvRename \/ SvOpen \/ SvSave
  \/ SvWait \/ SvFailRemove \/ SvFailRestore \/ SvDone \/ SvSleep

(***************************************************************************)
(* The save channel alone.                                                 *)
(***************************************************************************)
InitSave ==
  /\ InitSession
  /\ synchronized = FALSE
  /\ pcTx = "off" /\ pcSave = "sv_poll" /\ pcReset = "off" /\ pcGui = "off"
  /\ castLeft = 0 /\ saveLeft = MaxDrops /\ resetLeft = 0

NextSave == SaveLoop \/ FrontEndSave \/ EngineSaveCompleted \/ EngineSyncCompleted

SpecSave == InitSave /\ [][NextSave]_vars


(***************************************************************************)
(* reset_helper, lines 888-906.                                            *)
(***************************************************************************)
\* line 894: exists(file_name_reset)
RsPoll ==
  /\ Running
  /\ pcReset = "rs_poll"
  /\ pcReset' = IF resetFile THEN "rs_claim" ELSE "rs_idle"
  /\ UNCHANGED <<resetFile, resetClaimed, resetLeft, rsError, resetBuf>>
  /\ UNCHANGED <<procVars, engVars, obsVars, fsVars, txVars, saveVars, guiVars>>

\* line 899: wait(5)
RsIdle ==
  /\ Running
  /\ pcReset = "rs_idle"
  /\ pcReset' = "rs_poll"
  /\ UNCHANGED <<resetFile, resetClaimed, resetLeft, rsError, resetBuf>>
  /\ UNCHANGED <<procVars, engVars, obsVars, fsVars, txVars, saveVars, guiVars>>

\* line 895: rename(file_name_reset, file_name_reset + "_"); when it throws,
\* catch (...) { wait(2); }
RsClaim ==
  /\ Running
  /\ pcReset = "rs_claim"
  /\ \E renamed \in BOOLEAN :
       IF renamed
       THEN /\ resetFile' = FALSE
            /\ resetClaimed' = TRUE
            /\ pcReset' = "rs_begin"
       ELSE /\ pcReset' = "rs_poll"
            /\ UNCHANGED <<resetFile, resetClaimed>>
  /\ UNCHANGED <<resetLeft, rsError, resetBuf>>
  /\ UNCHANGED <<procVars, engVars, obsVars, fsVars, txVars, saveVars, guiVars>>

(***************************************************************************)
(* mini_wallet::reset, lines 599-626 (called through resetWrapper, lines   *)
(* 811-815, which drops its result).                                       *)
(***************************************************************************)
\* lines 600-607: the flag is cleared, the SaveWaiter is registered
RsBegin ==
  /\ Running
  /\ pcReset = "rs_begin"
  /\ synchronized' = FALSE
  /\ Register("resetSave")
  /\ pcReset' = "rs_save"
  /\ UNCHANGED <<resetFile, resetClaimed, resetLeft, rsError, resetBuf>>
  /\ UNCHANGED <<procVars, engState, engOpBy, engLoad, sendPending, engTxs>>
  /\ UNCHANGED <<fsVars, txVars, saveVars, guiVars>>

\* line 608: m_wallet->save(ss, false, false); when it throws, the guard
\* removes the observer and reset returns false
RsSave ==
  /\ Running
  /\ pcReset = "rs_save"
  /\ IF engState = "ready"
     THEN /\ engState' = "saving"
          /\ engOpBy' = "resetSave"
          /\ pcReset' = "rs_waitsave"
          /\ UNCHANGED obsVars
     ELSE /\ Unregister("resetSave")
          /\ pcReset' = "rs_sleep"
          /\ UNCHANGED <<engState, engOpBy>>
  /\ UNCHANGED <<resetFile, resetClaimed, resetLeft, rsError, resetBuf>>
  /\ UNCHANGED <<procVars, engLoad, sendPending, engTxs, synchronized>>
  /\ UNCHANGED <<fsVars, txVars, saveVars, guiVars>>

\* a faulty reset: the error of the save is not looked at
RsWaitSaveIgnoresError ==
  /\ Running
  /\ pcReset = "rs_waitsave"
  /\ Fulfilled("resetSave")
  /\ Unregister("resetSave")
  /\ rsError' = (slot["resetSave"] = "err")
  /\ pcReset' = "rs_shutdown"
  /\ UNCHANGED <<resetFile, resetClaimed, resetLeft, resetBuf>>
  /\ UNCHANGED <<procVars, engVars, fsVars, txVars, saveVars, guiVars>>

\* a faulty reset: the buffer is also written to the wallet file
RsWaitSavePersists ==
  /\ Running
  /\ pcReset = "rs_waitsave"
  /\ Fulfilled("resetSave")
  /\ Unregister("resetSave")
  /\ rsError' = (slot["resetSave"] = "err")
  /\ pcReset' = IF slot["resetSave"] = "err" THEN "rs_sleep" ELSE "rs_shutdown"
  /\ walletFile' = IF Exists(resetBuf) THEN resetBuf ELSE walletFile
  /\ UNCHANGED <<resetFile, resetClaimed, resetLeft, resetBuf>>
  /\ UNCHANGED <<tempFile, keysFile, bareFile, walletBack, keysBack, addressFile,
                 importBuf, storeBuf>>
  /\ UNCHANGED <<procVars, engVars, txVars, saveVars, guiVars>>

\* lines 609-612: saveError = saveWaiter.waitSave(); the guard removes the
\* observer at the end of the block
RsWaitSave ==
  /\ Running
  /\ pcReset = "rs_waitsave"
  /\ Fulfilled("resetSave")
  /\ Unregister("resetSave")
  /\ rsError' = (slot["resetSave"] = "err")
  /\ pcReset' = IF slot["resetSave"] = "err" THEN "rs_sleep" ELSE "rs_shutdown"
  /\ UNCHANGED <<resetFile, resetClaimed, resetLeft, resetBuf>>
  /\ UNCHANGED <<procVars, engVars, fsVars, txVars, saveVars, guiVars>>

\* line 613: m_wallet->shutdown().  It waits for the engine's running
\* operation to end; on an engine that is not initialized it throws.
RsShutdown ==
  /\ Running
  /\ pcReset = "rs_shutdown"
  /\ engState \notin {"saving", "loading"}
  /\ IF engState = "ready"
     THEN /\ engState' = "down"
          /\ pcReset' = "rs_init"
     ELSE /\ pcReset' = "rs_sleep"
          /\ UNCHANGED engState
  /\ UNCHANGED <<resetFile, resetClaimed, resetLeft, rsError, resetBuf>>
  /\ UNCHANGED <<procVars, engOpBy, engLoad, sendPending, engTxs, synchronized>>
  /\ UNCHANGED <<obsVars, fsVars, txVars, saveVars, guiVars>>

\* lines 614-616: the InitWaiter is registered, initAndLoad(ss, m_pwd_arg)
RsInit ==
  /\ Running
  /\ pcReset = "rs_init"
  /\ IF engState \in {"down", "uninit"}
     THEN /\ Register("resetInit")
          /\ engState' = "loading"
          /\ engOpBy' = "resetInit"
          /\ engLoad' = [ok |-> resetBuf.kind = "wallet", txs |-> resetBuf.txs]
          /\ pcReset' = "rs_waitinit"
     ELSE /\ pcReset' = "rs_sleep"
          /\ UNCHANGED <<obsVars, engState, engOpBy, engLoad>>
  /\ UNCHANGED <<resetFile, resetClaimed, resetLeft, rsError, resetBuf>>
  /\ UNCHANGED <<procVars, sendPending, engTxs, synchronized>>
  /\ UNCHANGED <<fsVars, txVars, saveVars, guiVars>>

\* lines 617-625: initWaiter.waitInit(); the guard removes the observer
RsWaitInit ==
  /\ Running
  /\ pcReset = "rs_waitinit"
  /\ Fulfilled("resetInit")
  /\ Unregister("resetInit")
  /\ pcReset' = "rs_sleep"
  /\ UNCHANGED <<resetFile, resetClaimed, resetLeft, rsError, resetBuf>>
  /\ UNCHANGED <<procVars, engVars, fsVars, txVars, saveVars, guiVars>>

\* line 897: wait(60)
RsSleep ==
  /\ Running
  /\ pcReset = "rs_sleep"
  /\ pcReset' = "rs_poll"
  /\ UNCHANGED <<resetFile, resetClaimed, resetLeft, rsError, resetBuf>>
  /\ UNCHANGED <<procVars, engVars, obsVars, fsVars, txVars, saveVars, guiVars>>

ResetLoop ==
  \/ RsPoll \/ RsIdle \/ RsClaim \/ RsBegin \/ RsSave \/ RsWaitSave
  \/ RsShutdown \/ RsInit \/ RsWaitInit \/ RsSleep

(***************************************************************************)
(* gui_helper, lines 1025-1071, with getBalance (753-764) and getTxs       *)
(* (770-805).  A text is a sequence: <<>> is the empty string, <<n>> the   *)
(* text computed from a wallet state with n transactions.                  *)
(***************************************************************************)
EngineAnswers == engState \in {"ready", "saving"}

\* a getBalance without the test of line 755
getBalanceUnsynchronized == IF EngineAnswers THEN <<engTxs>> ELSE <<>>

\* getBalance: "" while not synchronized or when the engine call throws
getBalance == IF synchronized /\ EngineAnswers THEN <<engTxs>> ELSE <<>>

\* getTxs: one record per transaction
getTxs == IF engTxs = 0 THEN <<>> ELSE <<engTxs>>

\* lines 1039-1041: the address file is written when it is missing
GuiStart ==
  /\ Running
  /\ pcGui = "gui_start"
  /\ addressFile' = TRUE
  /\ pcGui' = "gui_balance"
  /\ UNCHANGED <<statusFile, txsFile, lastBalance, lastTxs>>
  /\ UNCHANGED <<walletFile, tempFile, keysFile, bareFile, walletBack, keysBack,
                 importBuf, storeBuf>>
  /\ UNCHANGED <<procVars, engVars, obsVars, txVars, saveVars, resetVars>>

\* a faulty gui_helper: the balance is written whenever it differs from the
\* last one, the empty one too
GuiBalanceWritesEmpty ==
  /\ Running
  /\ pcGui = "gui_balance"
  /\ IF getBalance # lastBalance
     THEN /\ lastBalance' = getBalance
          /\ statusFile' = getBalance
     ELSE UNCHANGED <<lastBalance, statusFile>>
  /\ pcGui' = "gui_txs"
  /\ UNCHANGED <<txsFile, lastTxs>>
  /\ UNCHANGED <<procVars, engVars, obsVars, fsVars, txVars, saveVars, resetVars>>

\* lines 1046-1054
GuiBalance ==
  /\ Running
  /\ pcGui = "gui_balance"
  /\ IF getBalance # <<>> /\ getBalance # lastBalance
     THEN /\ lastBalance' = getBalance
          /\ statusFile' = getBalance
     ELSE UNCHANGED <<lastBalance, statusFile>>
  /\ pcGui' = "gui_txs"
  /\ UNCHANGED <<txsFile, lastTxs>>
  /\ UNCHANGED <<procVars, engVars, obsVars, fsVars, txVars, saveVars, resetVars>>

\* lines 1056-1066: getTxs calls the engine; when the call throws, catch (...)
\* { wait(2); continue; }; when nothing changed, continue
GuiTxs ==
  /\ Running
  /\ pcGui = "gui_txs"
  /\ IF ~EngineAnswers
     THEN /\ pcGui' = "gui_balance"
          /\ UNCHANGED <<txsFile, lastTxs>>
     ELSE IF txsFile.exists /\ getTxs = lastTxs
     THEN /\ pcGui' = "gui_balance"
          /\ UNCHANGED <<txsFile, lastTxs>>
     ELSE /\ lastTxs' = getTxs
          /\ txsFile' = [exists |-> TRUE, text |-> getTxs]
          /\ pcGui' = "gui_sleep"
  /\ UNCHANGED <<statusFile, lastBalance>>
  /\ UNCHANGED <<procVars, engVars, obsVars, fsVars, txVars, saveVars, resetVars>>

\* lines 1068-1069: interruption_point(); wait(5)
GuiSleep ==
  /\ Running
  /\ pcGui = "gui_sleep"
  /\ pcGui' = "gui_balance"
  /\ UNCHANGED <<statusFile, txsFile, lastBalance, lastTxs>>
  /\ UNCHANGED <<procVars, engVars, obsVars, fsVars, txVars, saveVars, resetVars>>

GuiLoop == GuiStart \/ GuiBalance \/ GuiTxs \/ GuiSleep


(***************************************************************************)
(* Start-up.  mini_wallet::init, lines 450-531: the generate-new path      *)
(* (new_wallet, lines 545-582) and the open path                           *)
(* (tryToOpenWalletOrLoadKeysOrThrow, lines 246-334).  When init returns   *)
(* false main returns (pcMain = "exit"); when it returns true main starts  *)
(* the four loops (pcMain = "running").                                    *)
(***************************************************************************)
Starting(pc) == pcMain = pc /\ ~terminated

\* a faulty init: only the wallet file is looked for before the generation
GenCheckWalletOnly ==
  /\ Starting("gen_check")
  /\ pcMain' = IF Exists(walletFile) THEN "exit" ELSE "gen_init"
  /\ UNCHANGED <<terminated, pwdOk, walletFileGui>>
  /\ UNCHANGED <<engVars, obsVars, fsVars, txVars, saveVars, resetVars, guiVars>>

\* lines 451-459 and 498-504: an existing wallet file or address file stops
\* the generation
GenCheck ==
  /\ Starting("gen_check")
  /\ pcMain' = IF Exists(walletFile) \/ addressFile THEN "exit" ELSE "gen_init"
  /\ UNCHANGED <<terminated, pwdOk, walletFileGui>>
  /\ UNCHANGED <<engVars, obsVars, fsVars, txVars, saveVars, resetVars, guiVars>>

\* lines 546-554: addObserver(this); m_initResultPromise is set;
\* initAndGenerate(password)
GenInit ==
  /\ Starting("gen_init")
  /\ registered' = registered \cup {"self"}
  /\ slot' = [slot EXCEPT !["genInit"] = "empty"]
  /\ slotBy' = [slotBy EXCEPT !["genInit"] = "none"]
  /\ engState' = "loading"
  /\ engOpBy' = "genInit"
  /\ \E good \in BOOLEAN : engLoad' = [ok |-> good, txs |-> 0]
  /\ pcMain' = "gen_wait"
  /\ UNCHANGED <<terminated, pwdOk, walletFileGui, sendPending, engTxs, synchronized>>
  /\ UNCHANGED <<fsVars, txVars, saveVars, resetVars, guiVars>>

\* lines 555-560: f_initError.get(); m_initResultPromise.reset(nullptr)
GenWait ==
  /\ Starting("gen_wait")
  /\ Fulfilled("genInit")
  /\ slot' = [slot EXCEPT !["genInit"] = "none"]
  /\ slotBy' = [slotBy EXCEPT !["genInit"] = "none"]
  /\ pcMain' = IF slot["genInit"] = "ok" THEN "gen_store" ELSE "exit"
  /\ UNCHANGED <<terminated, pwdOk, walletFileGui, registered>>
  /\ UNCHANGED <<engVars, fsVars, txVars, saveVars, resetVars, guiVars>>

\* lines 562-567: storeWallet(*m_wallet, m_wallet_file), the save is issued
GenStore ==
  /\ Starting("gen_store")
  /\ storeWalletIssue("mainStore")
  /\ pcMain' = IF storeWalletRefused THEN "exit" ELSE "gen_storewait"
  /\ UNCHANGED <<terminated, pwdOk, walletFileGui, engLoad, sendPending, engTxs, synchronized>>
  /\ UNCHANGED <<fsVars, txVars, saveVars, resetVars, guiVars>>

\* lines 563-581: storeWallet returns, or throws and new_wallet returns false
GenStoreWait ==
  /\ Starting("gen_storewait")
  /\ storeWalletFinish("mainStore")
  /\ pcMain' = IF slot["mainStore"] = "ok" THEN "gen_address" ELSE "exit"
  /\ UNCHANGED <<terminated, pwdOk, walletFileGui>>
  /\ UNCHANGED <<tempFile, keysFile, bareFile, walletBack, keysBack, addressFile,
                 importBuf, storeBuf>>
  /\ UNCHANGED <<engVars, txVars, saveVars, resetVars, guiVars>>

\* lines 511-513 and 531: the address file is written; init returns true
GenAddress ==
  /\ Starting("gen_address")
  /\ addressFile' = TRUE
  /\ pcMain' = "running"
  /\ UNCHANGED <<terminated, pwdOk, walletFileGui>>
  /\ UNCHANGED <<walletFile, tempFile, keysFile, bareFile, walletBack, keysBack,
                 importBuf, storeBuf>>
  /\ UNCHANGED <<engVars, obsVars, txVars, saveVars, resetVars, guiVars>>

\* lines 248-262 and 331-333: which files exist; a file at the bare path is
\* renamed to the wallet file name when neither wallet nor keys exist
OpenProbe ==
  /\ Starting("open_probe")
  /\ IF ~Exists(walletFile) /\ ~Exists(keysFile) /\ Exists(bareFile)
     THEN \E renamed \in BOOLEAN :
            IF renamed
            THEN /\ walletFile' = bareFile
                 /\ bareFile' = NoFile
                 /\ pcMain' = "open_load"
            ELSE /\ pcMain' = "exit"
                 /\ UNCHANGED <<walletFile, bareFile>>
     ELSE /\ pcMain' = IF Exists(walletFile) THEN "open_load"
                       ELSE IF Exists(keysFile) THEN "rec_import"
                       ELSE "exit"
          /\ UNCHANGED <<walletFile, bareFile>>
  /\ UNCHANGED <<terminated, pwdOk, walletFileGui>>
  /\ UNCHANGED <<tempFile, keysFile, walletBack, keysBack, addressFile, importBuf, storeBuf>>
  /\ UNCHANGED <<engVars, obsVars, txVars, saveVars, resetVars, guiVars>>

\* what the engine makes of a stream: it loads a wallet of the current
\* format that the password opens
Loadable(f) == f.kind = "wallet" /\ pwdOk

\* initAndLoadWallet, lines 235-240: the observer is registered, then
\* initAndLoad is called
initAndLoadWalletIssue(stream, good) ==
  /\ Register("openInit")
  /\ engState' = "loading"
  /\ engOpBy' = "openInit"
  /\ engLoad' = [ok |-> good, txs |-> stream.txs]

\* initAndLoadWallet, lines 241-244: f_initError.get(); the guard removes the
\* observer on return
initAndLoadWalletReturn ==
  /\ Fulfilled("openInit")
  /\ Unregister("openInit")

\* lines 263-271: the wallet file is opened and loaded
OpenLoad ==
  /\ Starting("open_load")
  /\ initAndLoadWalletIssue(walletFile, Loadable(walletFile))
  /\ pcMain' = "open_wait"
  /\ UNCHANGED <<terminated, pwdOk, walletFileGui, sendPending, engTxs, synchronized>>
  /\ UNCHANGED <<fsVars, txVars, saveVars, resetVars, guiVars>>

\* a faulty open: the legacy keys are imported whenever a key file exists,
\* whether the wallet file loaded or not
OpenWaitImportsAnyway ==
  /\ Starting("open_wait")
  /\ initAndLoadWalletReturn
  /\ pcMain' = IF Exists(keysFile) THEN "rec_import"
               ELSE IF slot["openInit"] = "ok" THEN "open_done"
               ELSE "exit"
  /\ UNCHANGED <<terminated, pwdOk, walletFileGui>>
  /\ UNCHANGED <<engVars, fsVars, txVars, saveVars, resetVars, guiVars>>

\* lines 271-302: loaded; or not loaded and keys exist: import; or throw
OpenWait ==
  /\ Starting("open_wait")
  /\ initAndLoadWalletReturn
  /\ pcMain' = IF slot["openInit"] = "ok" THEN "open_done"
               ELSE IF Exists(keysFile) THEN "rec_import"
               ELSE "exit"
  /\ UNCHANGED <<terminated, pwdOk, walletFileGui>>
  /\ UNCHANGED <<engVars, fsVars, txVars, saveVars, resetVars, guiVars>>

\* lines 518-531: m_wallet->addObserver(this); init returns true
OpenDone ==
  /\ Starting("open_done")
  /\ registered' = registered \cup {"self"}
  /\ walletFileGui' = "W"
  /\ pcMain' = "running"
  /\ UNCHANGED <<terminated, pwdOk, slot, slotBy>>
  /\ UNCHANGED <<engVars, fsVars, txVars, saveVars, resetVars, guiVars>>

StartUp ==
  \/ GenCheck \/ GenInit \/ GenWait \/ GenStore \/ GenStoreWait \/ GenAddress
  \/ OpenProbe \/ OpenLoad \/ OpenWait \/ OpenDone


\* a faulty recovery: the key file is renamed before the import is tried
RecImportBacksUpFirst ==
  /\ Starting("rec_import")
  /\ keysBack' = keysFile
  /\ keysFile' = NoFile
  /\ IF pwdOk
     THEN /\ importBuf' = WalletImage(0)
          /\ pcMain' = IF Exists(walletFile) THEN "rec_backwallet" ELSE "rec_init"
     ELSE /\ pcMain' = "exit"
          /\ UNCHANGED importBuf
  /\ UNCHANGED <<terminated, pwdOk, walletFileGui>>
  /\ UNCHANGED <<walletFile, tempFile, bareFile, walletBack, addressFile, storeBuf>>
  /\ UNCHANGED <<engVars, obsVars, txVars, saveVars, resetVars, guiVars>>

(***************************************************************************)
(* The legacy-key recovery of tryToOpenWalletOrLoadKeysOrThrow: lines      *)
(* 274-299 (the wallet file did not load and a key file exists) and lines  *)
(* 303-330 (no wallet file, a key file exists).  Both run the same steps;  *)
(* the second has no wallet file to back up.                               *)
(***************************************************************************)
\* lines 276-277 / 304-305: importLegacyKeys(keys_file, password, ss); it
\* throws when the password does not open the keys
RecImport ==
  /\ Starting("rec_import")
  /\ IF pwdOk
     THEN /\ importBuf' = WalletImage(0)
          /\ pcMain' = "rec_backkeys"
     ELSE /\ pcMain' = "exit"
          /\ UNCHANGED importBuf
  /\ UNCHANGED <<terminated, pwdOk, walletFileGui>>
  /\ UNCHANGED <<walletFile, tempFile, keysFile, bareFile, walletBack, keysBack,
                 addressFile, storeBuf>>
  /\ UNCHANGED <<engVars, obsVars, txVars, saveVars, resetVars, guiVars>>

\* line 278 / 306: rename(keys_file, keys_file + ".back"); it may throw
RecBackKeys ==
  /\ Starting("rec_backkeys")
  /\ \E renamed \in BOOLEAN :
       IF renamed
       THEN /\ keysBack' = keysFile
            /\ keysFile' = NoFile
            /\ pcMain' = IF Exists(walletFile) THEN "rec_backwallet" ELSE "rec_init"
       ELSE /\ pcMain' = "exit"
            /\ UNCHANGED <<keysFile, keysBack>>
  /\ UNCHANGED <<terminated, pwdOk, walletFileGui>>
  /\ UNCHANGED <<walletFile, tempFile, bareFile, walletBack, addressFile, importBuf, storeBuf>>
  /\ UNCHANGED <<engVars, obsVars, txVars, saveVars, resetVars, guiVars>>

\* a faulty recovery: the wallet file is removed instead of renamed
RecBackWalletDrops ==
  /\ Starting("rec_backwallet")
  /\ walletFile' = NoFile
  /\ pcMain' = "rec_init"
  /\ UNCHANGED <<terminated, pwdOk, walletFileGui>>
  /\ UNCHANGED <<tempFile, keysFile, bareFile, walletBack, keysBack, addressFile,
                 importBuf, storeBuf>>
  /\ UNCHANGED <<engVars, obsVars, txVars, saveVars, resetVars, guiVars>>

\* line 279: rename(walletFileName, walletFileName + ".back"); it may throw
RecBackWallet ==
  /\ Starting("rec_backwallet")
  /\ \E renamed \in BOOLEAN :
       IF renamed
       THEN /\ walletBack' = walletFile
            /\ walletFile' = NoFile
            /\ pcMain' = "rec_init"
       ELSE /\ pcMain' = "exit"
            /\ UNCHANGED <<walletFile, walletBack>>
  /\ UNCHANGED <<terminated, pwdOk, walletFileGui>>
  /\ UNCHANGED <<tempFile, keysFile, bareFile, keysBack, addressFile, importBuf, storeBuf>>
  /\ UNCHANGED <<engVars, obsVars, txVars, saveVars, resetVars, guiVars>>

\* line 281 / 308-312: the engine is initialized from the imported stream,
\* which it may reject
RecInit ==
  /\ Starting("rec_init")
  /\ \E good \in BOOLEAN : initAndLoadWalletIssue(importBuf, good)
  /\ pcMain' = "rec_initwait"
  /\ UNCHANGED <<terminated, pwdOk, walletFileGui, sendPending, engTxs, synchronized>>
  /\ UNCHANGED <<fsVars, txVars, saveVars, resetVars, guiVars>>

\* lines 281-284 / 313-318
RecInitWait ==
  /\ Starting("rec_initwait")
  /\ initAndLoadWalletReturn
  /\ pcMain' = IF slot["openInit"] = "ok" THEN "rec_store" ELSE "exit"
  /\ UNCHANGED <<terminated, pwdOk, walletFileGui>>
  /\ UNCHANGED <<engVars, fsVars, txVars, saveVars, resetVars, guiVars>>

\* lines 288-293 / 322-327: storeWallet(*wallet, walletFileName), the save
\* is issued
RecStore ==
  /\ Starting("rec_store")
  /\ storeWalletIssue("mainStore")
  /\ pcMain' = IF storeWalletRefused THEN "exit" ELSE "rec_storewait"
  /\ UNCHANGED <<terminated, pwdOk, walletFileGui, engLoad, sendPending, engTxs, synchronized>>
  /\ UNCHANGED <<fsVars, txVars, saveVars, resetVars, guiVars>>

\* lines 289-296 / 323-330: stored, or "error saving wallet file" is thrown
RecStoreWait ==
  /\ Starting("rec_storewait")
  /\ storeWalletFinish("mainStore")
  /\ pcMain' = IF slot["mainStore"] = "ok" THEN "open_done" ELSE "exit"
  /\ UNCHANGED <<terminated, pwdOk, walletFileGui>>
  /\ UNCHANGED <<tempFile, keysFile, bareFile, walletBack, keysBack, addressFile,
                 importBuf, storeBuf>>
  /\ UNCHANGED <<engVars, txVars, saveVars, resetVars, guiVars>>

Recovery ==
  \/ RecImport \/ RecBackKeys \/ RecBackWallet \/ RecInit \/ RecInitWait
  \/ RecStore \/ RecStoreWait

(***************************************************************************)
(* Specifications.                                                         *)
(***************************************************************************)
\* what is the same at every start of the process
InitProcess ==
  /\ terminated = FALSE
  /\ engState = "uninit" /\ engOpBy = "none" /\ engLoad = [ok |-> FALSE, txs |-> 0]
  /\ sendPending = FALSE /\ engTxs = 0 /\ synchronized = FALSE
  /\ registered = {} /\ slot = NoSlots /\ slotBy = NoSlots
  /\ tempFile = NoFile /\ importBuf = NoFile /\ storeBuf = NoFile
  /\ txcast = NoRequest /\ txresult = "" /\ txArgs = <<>> /\ txRetry = 0
  /\ txResult = "" /\ feOpen = FALSE /\ txReadId = 0 /\ consumed = {}
  /\ submitted = [r \in Requests |-> 0] /\ tgFileBefore = NoFile
  /\ saveFile = FALSE /\ saveClaimed = FALSE /\ svStreamOk = TRUE /\ svError = FALSE
  /\ resetFile = FALSE /\ resetClaimed = FALSE /\ rsError = FALSE /\ resetBuf = NoFile
  /\ statusFile = <<>> /\ txsFile = [exists |-> FALSE, text |-> <<>>]
  /\ lastBalance = <<>> /\ lastTxs = <<>>

\* m_wallet_file_gui when init reaches the password: still empty when the
\* wallet was named on the command line (--wallet-file, --generate-new-wallet),
\* the typed name when the operator answered the prompt (line 447)
NamedBy == {"", "W"}

\* a file found at the bare path W, and a backup an earlier recovery left
BareLegacy == [kind |-> "legacy", txs |-> 0, src |-> "bare"]
BareWallet == [kind |-> "wallet", txs |-> 0, src |-> "bare"]
StaleBackup == [kind |-> "legacy", txs |-> 0, src |-> "old"]

\* the recovery at start-up, from every arrangement of files
InitRecover ==
  /\ InitProcess
  /\ pcMain = "open_probe"
  /\ pwdOk \in BOOLEAN
  /\ walletFileGui \in NamedBy
  /\ walletFile \in {NoFile, OldWallet, LegacyWallet}
  /\ keysFile \in {NoFile, LegacyKeys}
  /\ bareFile \in {NoFile, BareLegacy, BareWallet}
  /\ walletBack \in {NoFile, StaleBackup}
  /\ keysBack = NoFile
  /\ addressFile = FALSE
  /\ pcTx = "off" /\ pcSave = "off" /\ pcReset = "off" /\ pcGui = "off"
  /\ castLeft = 0 /\ saveLeft = 0 /\ resetLeft = 0

NextRecover ==
  \/ OpenProbe \/ OpenLoad \/ OpenWait \/ OpenDone \/ Recovery
  \/ EngineInitCompleted \/ EngineSaveCompleted

SpecRecover == InitRecover /\ [][NextRecover]_vars

\* the generation of a new wallet at start-up, whatever files are at the
\* target path
InitGenerate ==
  /\ InitProcess
  /\ pcMain = "gen_check"
  /\ pwdOk = TRUE
  /\ walletFileGui \in NamedBy
  /\ walletFile \in {NoFile, OldWallet, LegacyWallet}
  /\ keysFile \in {NoFile, LegacyKeys}
  /\ bareFile \in {NoFile, BareWallet}
  /\ walletBack \in {NoFile, StaleBackup}
  /\ keysBack = NoFile
  /\ addressFile \in BOOLEAN
  /\ pcTx = "off" /\ pcSave = "off" /\ pcReset = "off" /\ pcGui = "off"
  /\ castLeft = 0 /\ saveLeft = 0 /\ resetLeft = 0

NextGenerate ==
  \/ GenCheck \/ GenInit \/ GenWait \/ GenStore \/ GenStoreWait \/ GenAddress
  \/ EngineInitCompleted \/ EngineSaveCompleted

SpecGenerate == InitGenerate /\ [][NextGenerate]_vars

\* start-up alone, on either path and with either way of naming the wallet
InitStart == InitRecover \/ InitGenerate
NextStart == NextRecover \/ NextGenerate
SpecStart == InitStart /\ [][NextStart]_vars

(***************************************************************************)
(* The stop: main, lines 1154-1178, with deinit, lines 534-543, and        *)
(* close_wallet, lines 584-597.                                            *)
(***************************************************************************)
\* the signal handler calls wal.stop() and wal.run() returns (lines 1154-1158)
StopSignal ==
  /\ pcMain = "running" /\ ~terminated
  /\ pcMain' = "deinit"
  /\ UNCHANGED <<terminated, pwdOk, walletFileGui>>
  /\ UNCHANGED <<engVars, obsVars, fsVars, txVars, saveVars, resetVars, guiVars>>

\* lines 535-537: m_wallet->removeObserver(this)
Deinit ==
  /\ Starting("deinit")
  /\ registered' = registered \ {"self"}
  /\ pcMain' = "cl_store"
  /\ UNCHANGED <<terminated, pwdOk, walletFileGui, slot, slotBy>>
  /\ UNCHANGED <<engVars, fsVars, txVars, saveVars, resetVars, guiVars>>

\* lines 586-591: storeWallet(*m_wallet, m_wallet_file), the save is issued;
\* when it throws close_wallet returns false and main returns
CloseStore ==
  /\ Starting("cl_store")
  /\ storeWalletIssue("mainStore")
  /\ pcMain' = IF storeWalletRefused THEN "exit" ELSE "cl_wait"
  /\ UNCHANGED <<terminated, pwdOk, walletFileGui, engLoad, sendPending, engTxs, synchronized>>
  /\ UNCHANGED <<fsVars, txVars, saveVars, resetVars, guiVars>>

\* lines 586-591: storeWallet returns or throws
CloseWait ==
  /\ Starting("cl_wait")
  /\ storeWalletFinish("mainStore")
  /\ pcMain' = IF slot["mainStore"] = "ok" THEN "cl_shutdown" ELSE "exit"
  /\ UNCHANGED <<terminated, pwdOk, walletFileGui>>
  /\ UNCHANGED <<tempFile, keysFile, bareFile, walletBack, keysBack, addressFile,
                 importBuf, storeBuf>>
  /\ UNCHANGED <<engVars, txVars, saveVars, resetVars, guiVars>>

\* lines 593-594: removeObserver(this); m_wallet->shutdown()
CloseShutdown ==
  /\ Starting("cl_shutdown")
  /\ engState \notin {"saving", "loading"}
  /\ engState' = IF engState = "ready" THEN "down" ELSE engState
  /\ pcMain' = "interrupt"
  /\ UNCHANGED <<terminated, pwdOk, walletFileGui, engOpBy, engLoad, sendPending, engTxs, synchronized>>
  /\ UNCHANGED <<obsVars, fsVars, txVars, saveVars, resetVars, guiVars>>

\* lines 1165-1168: t.interrupt(); tx.interrupt(); res.interrupt();
\* save.interrupt() on the thread objects of lines 1126-1129, which were
\* default-constructed and never given a thread (the threads of lines
\* 1133-1143 are other objects, and detached): the calls do nothing.  Then
\* main returns and the process ends with its threads.
Interrupt ==
  /\ Starting("interrupt")
  /\ pcMain' = "exit"
  /\ UNCHANGED <<terminated, pwdOk, walletFileGui>>
  /\ UNCHANGED <<engVars, obsVars, fsVars, txVars, saveVars, resetVars, guiVars>>

StopMain == StopSignal \/ Deinit \/ CloseStore \/ CloseWait \/ CloseShutdown \/ Interrupt

\* the daemon with a save request and the stop signal: the four loops poll,
\* save_helper serves the request
InitStop ==
  /\ InitSession
  /\ synchronized \in BOOLEAN
  /\ pcTx = "tx_poll" /\ pcSave = "sv_poll" /\ pcReset = "rs_poll" /\ pcGui = "gui_start"
  /\ castLeft = 0 /\ saveLeft = MaxLoad /\ resetLeft = 0

NextStop ==
  \/ StopMain
  \/ SaveLoop \/ FrontEndSave
  \/ TxPoll \/ TxSleep
  \/ RsPoll \/ RsIdle
  \/ GuiLoop
  \/ EngineSaveCompleted \/ EngineSyncCompleted

SpecStop == InitStop /\ [][NextStop]_vars

\* the operator starts the program again after it ended (or was stopped):
\* a new process, the files as the last one left them
ProcessRestart ==
  /\ pcMain \in {"exit", "running"}
  /\ pcMain' = "open_probe"
  /\ terminated' = FALSE
  /\ engState' = "uninit" /\ engOpBy' = "none" /\ engLoad' = [ok |-> FALSE, txs |-> 0]
  /\ sendPending' = FALSE /\ engTxs' = 0 /\ synchronized' = FALSE
  /\ registered' = {} /\ slot' = NoSlots /\ slotBy' = NoSlots
  /\ importBuf' = NoFile /\ storeBuf' = NoFile
  /\ walletFileGui' \in NamedBy
  /\ UNCHANGED <<pwdOk, walletFile, tempFile, keysFile, bareFile, walletBack,
                 keysBack, addressFile>>
  /\ UNCHANGED <<txVars, saveVars, resetVars, guiVars>>

\* the start-up run again and again on the files the run before left
SpecRerun == InitRecover /\ [][NextRecover \/ ProcessRestart]_vars

\* the daemon: start-up on a wallet of the current format or generation of
\* a new one, then the loops, the engine and the front-end.  In one run the
\* front-end either sends payments or asks for saves and resets; a loop whose
\* channel never gets a request would only poll and sleep, and is left out
\* of that run ("off").  The loops below work on the files of W: a wallet
\* that is opened is named on the command line, one that is generated is
\* named at the prompt (SpecStart covers the other ways of naming it).
Init ==
  /\ InitProcess
  /\ \/ /\ pcMain = "open_probe"
        /\ pwdOk \in BOOLEAN
        /\ walletFile \in {NoFile, OldWallet}
        /\ walletFileGui = ""
     \/ /\ pcMain = "gen_check"
        /\ pwdOk = TRUE
        /\ walletFile \in {NoFile, OldWallet}
        /\ walletFileGui = "W"
  /\ keysFile = NoFile /\ bareFile = NoFile
  /\ walletBack = NoFile /\ keysBack = NoFile
  /\ addressFile \in BOOLEAN
  /\ pcGui = "gui_start"
  /\ \/ /\ castLeft = MaxLoad /\ saveLeft = 0 /\ resetLeft = 0
        /\ pcTx = "tx_poll" /\ pcSave = "off" /\ pcReset = "off"
     \/ /\ castLeft = 0 /\ saveLeft = MaxLoad /\ resetLeft = MaxLoad
        /\ pcTx = "off" /\ pcSave = "sv_poll" /\ pcReset = "rs_poll"

Engine ==
  \/ EngineSaveCompleted \/ EngineInitCompleted \/ EngineSendCompleted
  \/ EngineSyncCompleted

FrontEnd == FrontEndTx \/ FrontEndSave \/ FrontEndReset

Next == StartUp \/ TxLoop \/ SaveLoop \/ ResetLoop \/ GuiLoop \/ Engine \/ FrontEnd

Spec == Init /\ [][Next]_vars


(***************************************************************************)
(* Properties of the transaction channel (SpecTx).                         *)
(***************************************************************************)
\* C1: every request the front-end drops on the .txcast channel is submitted
\* exactly once: no request is submitted twice, and once the loop is past the
\* call of transferWrapper every request whose file it removed has been
\* submitted with its line.
ExactlyOneSubmission ==
  \A r \in Requests :
    /\ submitted[r] <= 1
    /\ (r \in consumed /\ pcTx # "tg_parse") => submitted[r] = 1

\* transferGui has returned on a request that parseArguments accepts
ValidTransferReturned == pcTx = "tx_write" /\ parseArguments(txArgs).ok

SaveWindow == pcSave \in {"sv_open", "sv_save", "sv_wait"}

\* C2: atomic persist: wherever the process is stopped between the rename of
\* the wallet file to the temporary name and the completion of the write,
\* the canonical wallet file is a complete wallet (the original or the new
\* one), never absent, empty or cut short.
AtomicPersist == SaveWindow => walletFile.kind = "wallet"

(***************************************************************************)
(* Properties of the daemon (Spec).                                        *)
(***************************************************************************)
\* an operation has made its first call on the engine and has not returned
InReset == pcReset \in {"rs_waitsave", "rs_shutdown", "rs_init", "rs_waitinit"}
InTransfer == pcTx \in {"tg_wait", "tg_store", "tg_storewait"}
InSave == pcSave = "sv_wait"

\* C4: the operations on the engine are serialized: at most one of reset,
\* transferGui and saveWrapper is executing against the engine.
EngineSerialized ==
  /\ ~(InReset /\ InSave)
  /\ ~(InReset /\ InTransfer)
  /\ ~(InSave /\ InTransfer)

\* reset is between m_wallet->shutdown() and the end of initAndLoad
ResetReloading == pcReset \in {"rs_init", "rs_waitinit"}

\* a step in which another loop calls the engine: getTxs or getBalance of the
\* status loop, sendTransaction or storeWallet of the transaction loop, the
\* save of the save loop
EngineCallByOtherLoop ==
  \/ pcGui = "gui_txs" /\ pcGui' # pcGui
  \/ pcGui = "gui_balance" /\ synchronized /\ pcGui' # pcGui
  \/ pcTx \in {"tg_send", "tg_store"} /\ pcTx' # pcTx
  \/ pcSave = "sv_save" /\ pcSave' # pcSave

\* C5: reset is one critical section: while it is between the shutdown of
\* the engine and the completion of the re-initialization, no other loop
\* makes a call on the engine.
ResetCriticalSection == [][ResetReloading => ~EngineCallByOtherLoop]_vars

\* the waiters of this program: SaveWaiter and InitWaiter of reset, and the
\* promise of mini_wallet::initCompleted
OwnWaiters == {"resetSave", "resetInit", "genInit"}

\* a step in which the engine delivers a completion to waiter w
CompletionDelivered(w) ==
  \/ engState = "saving" /\ engState' # "saving" /\ w \in SaveTargets
  \/ engState = "loading" /\ engState' # "loading" /\ w \in InitTargets

\* C6: a result slot is assigned at most once, and a further completion
\* callback delivered to a waiter whose slot is already fulfilled is ignored:
\* the slot keeps its value and the callback does not raise.
RepeatedCallbackIgnored ==
  [][\A w \in OwnWaiters :
       (Fulfilled(w) /\ CompletionDelivered(w)) =>
          (slot'[w] = slot[w] /\ terminated' = terminated)]_vars

\* C7: a wait is released only by the completion of the call its own bridge
\* issued: a slot is never fulfilled by the completion of another bridge's
\* operation.
MatchingCompletionOnly == \A w \in Waiters : Fulfilled(w) => slotBy[w] = w

\* the observer of waiter w is registered with the engine and has its slot
Listening(w) ==
  /\ slot[w] # "none"
  /\ IF w = "genInit" THEN "self" \in registered ELSE w \in registered

ObserverRemovedOnExit ==
  /\ "openInit" \in registered => pcMain \in {"open_wait", "rec_initwait"}
  /\ "resetSave" \in registered => pcReset \in {"rs_save", "rs_waitsave"}
  /\ "resetInit" \in registered => pcReset = "rs_waitinit"
  /\ "sendObs" \in registered => pcTx \in {"tg_send", "tg_wait"}
  /\ "saveObs" \in registered => pcSave = "sv_wait"

\* transferGui left through the early return after sendTransaction refused
TransferRefusedReturned ==
  /\ pcTx = "tx_write" /\ txResult = "Can't send money"
  /\ "sendObs" \notin registered /\ slot["sendObs"] = "none"

(***************************************************************************)
(* Properties of the recovery at start-up (SpecRecover).                   *)
(***************************************************************************)
\* where the files found at start-up are
WalletOriginalKept ==
  \/ Exists(walletFile) /\ walletFile.src = "pre"
  \/ Exists(walletBack) /\ walletBack.src = "pre"
KeysOriginalKept ==
  \/ Exists(keysFile) /\ keysFile.src = "pre"
  \/ Exists(keysBack) /\ keysBack.src = "pre"
BareOriginalInPlace == Exists(bareFile) /\ bareFile.src = "bare"
BareOriginalKept ==
  \/ BareOriginalInPlace
  \/ Exists(walletFile) /\ walletFile.src = "bare"
  \/ Exists(walletBack) /\ walletBack.src = "bare"

\* C10, as stated: through every step of the recovery each file found at
\* start-up stays on disk under its original name or under the .back name.
OriginalsUnderNameOrBack ==
  [][/\ WalletOriginalKept => WalletOriginalKept'
     /\ KeysOriginalKept => KeysOriginalKept'
     /\ BareOriginalInPlace => BareOriginalInPlace']_vars

\* C10, amended: through every step of the recovery the wallet file and the
\* key file found at start-up stay on disk under their original name or the
\* .back name, and a file found at the bare path stays on disk under the bare
\* path or under the wallet file name it was renamed to (or its .back name).
OriginalsSurvive ==
  [][/\ WalletOriginalKept => WalletOriginalKept'
     /\ KeysOriginalKept => KeysOriginalKept'
     /\ BareOriginalKept => BareOriginalKept']_vars

\* the start-up gave up after the file at the bare path was renamed to the
\* wallet file name
BareRenamedThenFailed ==
  pcMain = "exit" /\ ~Exists(bareFile) /\ Exists(walletFile) /\ walletFile.src = "bare"

(***************************************************************************)
(* Properties of repeated start-ups (SpecRerun).                           *)
(***************************************************************************)
FilesOnDisk ==
  <<walletFile, tempFile, keysFile, bareFile, walletBack, keysBack, addressFile>>

\* tryToOpenWalletOrLoadKeysOrThrow is running on a wallet file of the
\* current format that the password opens
OpeningCurrentWallet ==
  /\ pcMain \in {"open_probe", "open_load", "open_wait"}
  /\ walletFile.kind = "wallet" /\ pwdOk

\* C11: recovery is idempotent: every run of the open path on a wallet file
\* of the current format, the first as well as a later one on a migrated
\* wallet, goes on to "loaded" without entering the legacy import, and no
\* step of it renames, writes or removes a file.
RecoveryIdempotent ==
  [][OpeningCurrentWallet =>
       /\ FilesOnDisk' = FilesOnDisk
       /\ pcMain' \in {"open_load", "open_wait", "open_done"}]_vars

\* a later run loaded the wallet that an earlier run migrated, without import
MigratedWalletReloaded ==
  /\ pcMain = "open_done"
  /\ walletFile = WalletImage(0) /\ keysBack = LegacyKeys /\ ~Exists(keysFile)
  /\ importBuf = NoFile

(***************************************************************************)
(* Properties of the generation of a new wallet (SpecGenerate).            *)
(***************************************************************************)
\* init is about to generate a wallet where the wallet file or the address
\* file already exists
GenerateCollision == pcMain = "gen_check" /\ (Exists(walletFile) \/ addressFile)

\* C12: the generation fails when the wallet file or its address file
\* already exists: init gives up at once, and neither that step nor anything
\* after it writes, renames or removes a file.
GenerateRefusesCollision ==
  [][/\ GenerateCollision => (pcMain' = "exit" /\ FilesOnDisk' = FilesOnDisk)
     /\ pcMain = "exit" => FilesOnDisk' = FilesOnDisk]_vars

\* the generation was refused because of the address file alone
RefusedOnAddressFile ==
  /\ pcMain = "exit" /\ addressFile /\ ~Exists(walletFile)
  /\ engState = "uninit" /\ registered = {}

(***************************************************************************)
(* Properties of the request format (SpecFormat).                          *)
(***************************************************************************)
\* the fields of a line: what stands between two delimiters, before the
\* first one and after the last one
RECURSIVE FieldsOf(_)
FieldsOf(content) ==
  LET pos == FindDelim(content) IN
  IF pos = 0 THEN <<IF content = <<>> THEN "" ELSE content[1]>>
  ELSE <<TokenBefore(content, pos)>> \o FieldsOf(SubSeq(content, pos + 1, Len(content)))

\* a request whose every field is valid
WellFormed(fields) ==
  /\ Len(fields) \in 3..5
  /\ fields[1] \in NumberTokens
  /\ fields[2] \in AddressTokens
  /\ fields[3] \in AmountTokens /\ AmountOf(fields[3]) > 0
  /\ Len(fields) >= 4 => fields[4] \in PaymentIdTokens \cup {""}
  /\ Len(fields) = 5 => fields[5] \in AmountTokens /\ AmountOf(fields[5]) >= MinimumFee

\* tx_helper reads the request file and goes on to remove it
ReadsRequest == pcTx = "tx_read" /\ txcast # NoRequest /\ pcTx' = "tx_remove"

\* C13: a malformed transfer request is rejected: the arguments tx_helper
\* makes of its line are refused by parseArguments, and a refused request
\* gets "Parse error" as its result while nothing is sent to the engine and
\* the wallet file is not written.
MalformedRequestRejected ==
  [][/\ (ReadsRequest /\ ~WellFormed(FieldsOf(txcast.line)))
          => ~parseArguments(txArgs').ok
     /\ (pcTx = "tg_parse" /\ pcTx' # pcTx /\ ~parseArguments(txArgs).ok)
          => /\ txResult' = "Parse error" /\ pcTx' = "tx_write"
             /\ sendPending' = sendPending /\ engState' = engState
             /\ walletFile' = walletFile]_vars

\* the arguments of a line when each of its fields is pushed
RECURSIVE PushAll(_, _, _)
PushAll(fields, idx, args) ==
  IF fields = <<>> THEN args
  ELSE PushAll(Tail(fields), idx + 1, PushField(args, idx, Head(fields)))

\* C14: for every request line with valid fields the arguments handed to
\* the transfer are exactly the fields of the line, none is dropped.
EveryFieldHandedOver ==
  [][(ReadsRequest /\ WellFormed(FieldsOf(txcast.line)))
       => txArgs' = PushAll(FieldsOf(txcast.line), 0, <<>>)]_vars

(***************************************************************************)
(* Properties of the session flags and of the polling loops (Spec).        *)
(***************************************************************************)
\* C15: the synchronized flag is monotonic: once true it never goes back to
\* false, also when the session is reset.
SynchronizedMonotonic == [][synchronized => synchronized']_vars

\* a loop enters the operation of a request
TxOperationBegins == pcTx # "tg_parse" /\ pcTx' = "tg_parse"
SaveOperationBegins == pcSave # "sv_check" /\ pcSave' = "sv_check"
ResetOperationBegins == pcReset # "rs_begin" /\ pcReset' = "rs_begin"

\* C16: in each polling loop the operation of a request runs only after the
\* claim of its request file succeeded: the step that enters the operation is
\* the step that renamed or removed the request file; when the claim fails
\* no operation is performed in that iteration.
ClaimBeforeOperation ==
  [][/\ TxOperationBegins => (txcast # NoRequest /\ txcast' = NoRequest)
     /\ SaveOperationBegins => (saveFile /\ ~saveFile' /\ saveClaimed')
     /\ ResetOperationBegins => (resetFile /\ ~resetFile' /\ resetClaimed')]_vars

(***************************************************************************)
(* Properties of the save channel (SpecSave).                              *)
(***************************************************************************)
\* the iteration of save_helper that claimed a request ends
SaveIterationEnds == pcSave # "sv_sleep" /\ pcSave' = "sv_sleep"
\* the places of saveWrapper that come after the call of the engine's save
AfterEngineSave == pcSave \in {"sv_fail", "sv_restore", "sv_done"}

\* C17: every .save request the loop claims results in one persist: in every
\* session state the iteration that renamed the sentinel ends only after the
\* engine's save was invoked for it.
ClaimedSaveIsPersisted == [][SaveIterationEnds => AfterEngineSave]_vars

\* saveWrapper returns after the engine reported a failure of the save
FailedSaveReturns == pcSave \in {"sv_fail", "sv_restore"} /\ pcSave' = "sv_sleep"

TxAtCheckpoint == pcTx \in {"tx_sleep", "tx_poll"}
SaveAtCheckpoint == pcSave \in {"sv_sleep", "sv_idle", "sv_poll"}
ResetAtCheckpoint == pcReset \in {"rs_sleep", "rs_idle", "rs_poll"}
GuiAtCheckpoint == pcGui \in {"gui_start", "gui_sleep", "gui_balance"}

\* C19: after the stop signal each of the four loops is stopped at its next
\* polling checkpoint: when main returns every loop is at its checkpoint, no
\* loop is cut in the middle of the operation of a request.
LoopsStopAtCheckpoint ==
  pcMain = "exit" =>
    (TxAtCheckpoint /\ SaveAtCheckpoint /\ ResetAtCheckpoint /\ GuiAtCheckpoint)

(***************************************************************************)
(* Properties of the loops under exceptions (Spec).                        *)
(***************************************************************************)
\* a step in which the catch (...) of a loop takes an exception of the
\* iteration: the removal of the request file, the rename of a sentinel or
\* the call of the engine has thrown
TxCatches ==
  pcTx \in {"tx_remove", "tx_retry"} /\ pcTx' \notin {pcTx, "tx_retry", "tg_parse"}
SaveCatches == pcSave = "sv_claim" /\ pcSave' \notin {pcSave, "sv_check"}
ResetCatches == pcReset = "rs_claim" /\ pcReset' \notin {pcReset, "rs_begin"}
GuiCatches == pcGui = "gui_txs" /\ ~EngineAnswers /\ pcGui' # pcGui

\* C20: each polling loop survives an exception raised in an iteration: the
\* step that catches it leaves the loop at the head of its next iteration,
\* the process alive and the request file in place, and a loop at the head
\* of an iteration picks up the request it finds.
LoopsSurviveExceptions ==
  [][/\ TxCatches => (pcTx' = "tx_poll" /\ txcast' = txcast /\ terminated' = terminated)
     /\ SaveCatches => (pcSave' = "sv_poll" /\ saveFile' = saveFile /\ terminated' = terminated)
     /\ ResetCatches =>
          (pcReset' = "rs_poll" /\ resetFile' = resetFile /\ terminated' = terminated)
     /\ GuiCatches => (pcGui' = "gui_balance" /\ terminated' = terminated)
     /\ (pcTx = "tx_poll" /\ txcast # NoRequest /\ pcTx' # pcTx) => pcTx' = "tx_read"
     /\ (pcSave = "sv_poll" /\ saveFile /\ pcSave' # pcSave) => pcSave' = "sv_claim"
     /\ (pcReset = "rs_poll" /\ resetFile /\ pcReset' # pcReset) => pcReset' = "rs_claim"]_vars

\* tx_helper has read a request, the removal of its file has thrown, and the
\* loop polls again with the request still in place
TxCaughtAndPollsAgain ==
  /\ pcTx = "tx_poll" /\ ~terminated
  /\ txcast # NoRequest /\ txReadId = txcast.id
  /\ txcast.id \notin consumed /\ submitted[txcast.id] = 0

(***************************************************************************)
(* Properties of the result file (SpecTxFair).                             *)
(***************************************************************************)
\* tx_helper is in transferWrapper for the request it took
InTransferCall == pcTx \in {"tg_parse", "tg_send", "tg_wait", "tg_store", "tg_storewait"}

TxIterationBegins == pcTx # "tx_poll" /\ pcTx' = "tx_poll"
SaveIterationBegins == pcSave # "sv_poll" /\ pcSave' = "sv_poll"
ResetIterationBegins == pcReset # "rs_poll" /\ pcReset' = "rs_poll"
GuiIterationBegins == pcGui \notin {"gui_start", "gui_balance"} /\ pcGui' = "gui_balance"

\* C22: between two polls of a loop there is always a sleep: a loop begins
\* an iteration only from its sleep at the end of the iteration before (or
\* from the sleep of its catch).
EveryIterationSleeps ==
  [][/\ TxIterationBegins => (pcTx = "tx_sleep" \/ TxCatches)
     /\ SaveIterationBegins => (pcSave \in {"sv_sleep", "sv_idle"} \/ SaveCatches)
     /\ ResetIterationBegins => (pcReset \in {"rs_sleep", "rs_idle"} \/ ResetCatches)
     /\ GuiIterationBegins => (pcGui = "gui_sleep" \/ GuiCatches)]_vars

\* C23: the status loop writes only on change: W.status changes only in the
\* step of gui_helper that found a non-empty balance different from the last
\* one written, and W.txs only in the step that found the file missing or
\* the export different from the last one written; what was written last is
\* what the loop remembers.
StatusWrittenOnChange ==
  [][/\ statusFile' # statusFile =>
          /\ pcGui = "gui_balance"
          /\ getBalance # <<>> /\ getBalance # lastBalance
          /\ statusFile' = getBalance
     /\ txsFile' # txsFile =>
          /\ pcGui = "gui_txs"
          /\ ~txsFile.exists \/ getTxs # lastTxs
          /\ txsFile' = [exists |-> TRUE, text |-> getTxs]
     /\ lastBalance' = statusFile'
     /\ txsFile'.exists => lastTxs' = txsFile'.text]_vars

\* both files were written after a change: a balance, and an export with a
\* transaction in it
StatusAndTxsExported ==
  /\ pcGui = "gui_sleep"
  /\ statusFile # <<>> /\ statusFile = lastBalance
  /\ txsFile.exists /\ txsFile.text # <<>> /\ txsFile.text = lastTxs

(***************************************************************************)
(* Properties of reset (Spec).                                             *)
(***************************************************************************)
\* a step of reset_helper inside mini_wallet::reset
ResetStep ==
  /\ pcReset \in {"rs_begin", "rs_save", "rs_waitsave", "rs_shutdown", "rs_init",
                  "rs_waitinit"}
  /\ pcReset' # pcReset
\* the engine ends the save that reset gave it
ResetSaveEnds == engState = "saving" /\ engOpBy = "resetSave" /\ engState' # "saving"

\* C24: reset never writes the wallet file: no step of reset changes a file
\* on disk, the engine's save for reset goes to the buffer and not to the
\* file, and the engine is re-initialized from that buffer, after the
\* shutdown.
ResetWorksInMemory ==
  [][/\ ResetStep => FilesOnDisk' = FilesOnDisk
     /\ ResetSaveEnds =>
          /\ FilesOnDisk' = FilesOnDisk
          /\ resetBuf' \in {SaveOutput("ok"), SaveOutput("err")}
     /\ (ResetStep /\ engState' = "loading") =>
          /\ pcReset = "rs_init" /\ engState \in {"down", "uninit"}
          /\ engLoad'.ok = (resetBuf.kind = "wallet")
          /\ engLoad'.txs = resetBuf.txs]_vars

\* the engine was reloaded from the buffer and the wallet file is the one
\* the session started with
ReloadedFromBuffer ==
  /\ pcReset = "rs_waitinit" /\ slot["resetInit"] = "ok"
  /\ engState = "ready" /\ resetBuf.kind = "wallet"
  /\ walletFile = OldWallet


(***************************************************************************)
(* C25                                                                     *)
(***************************************************************************)

\* C25: once start-up has succeeded, on the open path and on the
\* generate-new path alike, the basename the loops build their sentinel file
\* names from is the wallet path the operator supplied, never the empty
\* string.
BasenameIsWalletPath ==
  pcMain = "running" => walletFileGui = "W"


(***************************************************************************)
(* C26                                                                     *)
(***************************************************************************)

ResetStarts == pcReset = "rs_begin" /\ pcReset' # pcReset

ResetSaveFailed ==
  pcReset = "rs_waitsave" /\ pcReset' # pcReset /\ slot["resetSave"] = "err"

\* C27: when the in-memory save of a reset reports an error, reset neither
\* shuts the engine down nor initializes it again: the engine is left as it
\* was, still answering, and reset returns to the loop, which sleeps; the
\* shutdown and the reload are only ever entered after a save without error.
FailedResetSaveKeepsEngine ==
  [][/\ ResetSaveFailed =>
          /\ pcReset' = "rs_sleep" /\ rsError'
          /\ UNCHANGED <<engState, engOpBy, engLoad, sendPending, engTxs>>
          /\ EngineAnswers'
     /\ pcReset' \in {"rs_shutdown", "rs_init", "rs_waitinit"} => ~rsError'
     /\ (pcReset = "rs_sleep" /\ pcReset' # pcReset) =>
          /\ pcReset' = "rs_poll"
          /\ UNCHANGED <<engState, engOpBy, engLoad, sendPending, engTxs>>]_vars

\* a reset whose save failed has returned: the engine answers as before
ResetGaveUpAfterSaveError ==
  /\ pcReset = "rs_sleep" /\ rsError /\ resetClaimed
  /\ engState = "ready" /\ resetBuf = SaveOutput("err")


(***************************************************************************)
(* C28                                                                     *)
(***************************************************************************)

SendRefused ==
  pcTx = "tg_send" /\ pcTx' # pcTx /\ EngineAnswers /\ UNCHANGED sendPending

\* C28: when the engine's send returns the invalid-transaction id,
\* transferGui returns the text "Can't send money" at once: it does not wait
\* for a send completion, it does not persist the wallet, its observer is
\* removed, and the next step of the transaction loop writes that text to the
\* result file.
RefusedSendReturnsAtOnce ==
  [][/\ SendRefused =>
          /\ txResult' = "Can't send money"
          /\ pcTx' = "tx_write"
          /\ "sendObs" \notin registered'
          /\ UNCHANGED <<engVars, fsVars>>
     /\ (pcTx = "tx_write" /\ pcTx' # pcTx) =>
          /\ txresult' = txResult
          /\ pcTx' = "tx_sleep"
          /\ UNCHANGED <<engVars, fsVars>>]_vars

\* the result file holds the refusal, nothing was sent and nothing persisted
RefusalWritten ==
  /\ pcTx = "tx_sleep" /\ txresult = "Can't send money"
  /\ ~sendPending /\ engTxs = 0 /\ walletFile = OldWallet


(***************************************************************************)
(* C29                                                                     *)
(***************************************************************************)

ImportThrows == pcMain = "rec_import" /\ pcMain' = "exit"
BeforeImport == pcMain \in {"open_probe", "open_load", "open_wait", "rec_import"}

\* C29: in the open-or-recover step the key file and the wallet file are
\* renamed to their .back names only after the import of the legacy keys has
\* succeeded: no step up to the import changes a file when a key file exists,
\* the import that throws changes none either, and a .back file only changes
\* once the imported image is there.
BackupOnlyAfterImport ==
  [][/\ ImportThrows => FilesOnDisk' = FilesOnDisk
     /\ (Exists(keysFile) /\ BeforeImport) => FilesOnDisk' = FilesOnDisk
     /\ (keysBack' # keysBack \/ walletBack' # walletBack) =>
          /\ pcMain \in {"rec_backkeys", "rec_backwallet"}
          /\ importBuf = WalletImage(0)]_vars

\* the import has thrown on a wrong password, with a wallet file and a key
\* file in place: both are still under their names and no backup was made
ImportFailedFilesInPlace ==
  /\ pcMain = "exit" /\ ~pwdOk
  /\ Exists(keysFile) /\ Exists(walletFile)
  /\ keysBack = NoFile /\ importBuf = NoFile

====
